---------------------------- MODULE Spec2Model ----------------------------
(***************************************************************************)
(* A model of the release notes generator: the commit classifier           *)
(* (Utils.cpp), the reference rewriters (Format.cpp) and the sub category  *)
(* extraction of the generator (release_notes_generator.cpp).              *)
(*                                                                         *)
(* A std::string is a sequence of one-character strings.  Positions and    *)
(* lengths are kept 0-based, as in the C++ code, and converted to the      *)
(* 1-based sequences of TLA+ only inside the std::string helpers.          *)
(***************************************************************************)
EXTENDS Integers, Sequences, FiniteSets, TLC

VARIABLES
    pc,                          \* position of the modelled call
    config,                      \* the global Config object (Config.h)
    commitMessage,               \* argument of checkCommitTypeMatch
    commitTypeIndex,             \* argument of checkCommitTypeMatch
    matchResult,                 \* value returned by checkCommitTypeMatch
    subCategoryText,             \* local of getCommitsNotesFromCommitMessages
    pullRequestBody,             \* argument of the Format.cpp rewriters
    result,                      \* local `result` of the rewriters
    numberOfNewCharactersAdded,  \* local of the rewriters
    pending,                     \* matches the sregex_iterator has yet to yield
    replaced,                    \* matches the loop has already rewritten
    applications,                \* the calls of a rewriter that have returned
    releaseNote,                 \* the release note line built from a commit title
    releaseNoteSource,           \* argument of generateReleaseNotes
    releaseNotesMode,            \* argument of generateReleaseNotes
    markdownReleaseNotes,        \* local of generateReleaseNotes
    sectionNotes,                \* releaseNotesFrom... of the section being assembled
    commitTypeContainsReleaseNotes, \* local of the section being assembled
    pullRequestInfo,             \* the JSON parsed from the last response
    records,                     \* the lines read from git log so far
    fetches,                     \* the calls of getPullRequestInfo so far
    sections,                    \* the strings the section functions have returned
    files,                       \* the two output files
    conversions,                 \* the calls of convertMarkdownToHtml so far
    resources,                   \* the pipes, curl handles and header lists held
    gitLog,                      \* the subject lines git log prints for the commit type
    pipe,                        \* what is left to read from the pipe of git log
    externalConfigData,          \* the JSON Config::load has parsed from the file
    pullRequestChangeNote,       \* the note generatePullRequestChangeNote builds
    exitCode                     \* what main returns

vars == <<pc, config, commitMessage, commitTypeIndex, matchResult, subCategoryText,
          pullRequestBody, result, numberOfNewCharactersAdded, pending, replaced,
          applications, releaseNote, releaseNoteSource, releaseNotesMode,
          markdownReleaseNotes, sectionNotes, commitTypeContainsReleaseNotes,
          pullRequestInfo, records, fetches, sections, files, conversions, resources,
          gitLog, pipe, externalConfigData, pullRequestChangeNote, exitCode>>

classifyVars == <<commitMessage, commitTypeIndex, matchResult, subCategoryText>>

formatVars == <<pullRequestBody, result, numberOfNewCharactersAdded, pending, replaced>>

noteVars == <<applications, releaseNote>>

pipeVars == <<gitLog, pipe>>

loadVars == <<externalConfigData>>

changeNoteVars == <<pullRequestChangeNote>>

generateVars == <<releaseNoteSource, releaseNotesMode, markdownReleaseNotes, sectionNotes,
                  commitTypeContainsReleaseNotes, pullRequestInfo, records, fetches,
                  sections, files, conversions, resources, pipeVars, loadVars, changeNoteVars,
                  exitCode>>

-----------------------------------------------------------------------------
(* Bounds of the model.                                                    *)

\* longest commit title drawn for the classifier
MaxTitleLen == 5

\* longest pull request body drawn, character by character, for the hash id rewrite
MaxBodyLen == 5

\* number of words (hex runs, links) in a body drawn for the commit SHA rewrite
MaxWords == 2

\* number of lines git log yields during a run, all commit types together
MaxRecords == 2

\* number of subject lines git log prints for a commit type
MaxSubjects == 2

-----------------------------------------------------------------------------
(* std::string                                                             *)

\* size_t is modelled 16 bits wide: every string of the model is far shorter
SizeMod == 65536

npos == SizeMod - 1

Min(a, b) == IF a < b THEN a ELSE b

\* size_t addition and subtraction wrap around
AddSizeT(a, b) == (a + b) % SizeMod

SubSizeT(a, b) == (a - b + SizeMod) % SizeMod

\* the set of all sequences over S of length at most n
SeqsUpTo(S, n) == UNION {[1..k -> S] : k \in 0..n}

\* s.find(ch, from): 0-based position of the first ch at or after from, else npos
FindFrom(s, ch, from) ==
    LET found == {p \in from..(Len(s) - 1) : s[p + 1] = ch}
    IN  IF found = {} THEN npos
        ELSE CHOOSE p \in found : \A q \in found : p <= q

Find(s, ch) == FindFrom(s, ch, 0)

\* s.substr(pos, count), defined for pos <= s.size(); count is clipped to the end
Substr(s, pos, count) == SubSeq(s, pos + 1, pos + Min(count, Len(s) - pos))

\* s.erase(pos, count)
Erase(s, pos, count) ==
    SubSeq(s, 1, pos) \o SubSeq(s, pos + Min(count, Len(s) - pos) + 1, Len(s))

\* s.insert(pos, t)
Insert(s, pos, t) == SubSeq(s, 1, pos) \o t \o SubSeq(s, pos + 1, Len(s))

LowerCaseLetters ==
    <<"a", "b", "c", "d", "e", "f", "g", "h", "i", "j", "k", "l", "m",
      "n", "o", "p", "q", "r", "s", "t", "u", "v", "w", "x", "y", "z">>

UpperCaseLetters ==
    <<"A", "B", "C", "D", "E", "F", "G", "H", "I", "J", "K", "L", "M",
      "N", "O", "P", "Q", "R", "S", "T", "U", "V", "W", "X", "Y", "Z">>

\* toupper in the "C" locale
toupper(c) ==
    IF \E k \in DOMAIN LowerCaseLetters : LowerCaseLetters[k] = c
    THEN UpperCaseLetters[CHOOSE k \in DOMAIN LowerCaseLetters : LowerCaseLetters[k] = c]
    ELSE c

-----------------------------------------------------------------------------
(* Config and the commit type registry                                     *)

\* a row of Config::commitTypes
CommitType(name, title) == [ConventionalName |-> name, MarkdownTitle |-> title]

\* a registry of two commit types, the name of one a prefix of the other's
DefaultRegistry ==
    << CommitType(<<"f">>, <<"F">>), CommitType(<<"f", "x">>, <<"X">>) >>

\* registries Config::load accepts: it stores the names it reads unchecked
Registries ==
    { DefaultRegistry,
      << CommitType(<<"f", ":">>, <<"C">>), CommitType(<<"f", ")">>, <<"P">>),
         CommitType(<<>>, <<"E">>) >> }

\* main() sets both urls to githubUrl + repository + "/commit/" or "/issues/",
\* so that they end in '/'; a default constructed Config leaves them empty
RepoUrls == { <<>>, <<"u", "/">> }

\* config.markdownReleaseNotePrefix, the prefix of a note line in the short mode
ReleaseNotePrefixes == { <<"-", " ">> }

\* config.markdownFullModeReleaseNotePrefix, the prefix of a note line in the full mode
FullModeReleaseNotePrefixes == { <<"#", " ">> }

Configs ==
    [commitTypes : Registries, repoIssuesUrl : RepoUrls, repoCommitsUrl : RepoUrls,
     markdownReleaseNotePrefix : ReleaseNotePrefixes,
     markdownFullModeReleaseNotePrefix : FullModeReleaseNotePrefixes]

commitTypesCount == Len(config.commitTypes)

\* a JSON value that is null
JsonNull == [is_null |-> TRUE, value |-> <<>>]

\* a JSON value that is the string s
JsonString(s) == [is_null |-> FALSE, value |-> s]

\* an output file that has not been opened
NoFile == [is_open |-> FALSE, text |-> <<>>]

\* no rewriter has returned and no release note line has been built
NotesIdle ==
    /\ applications = <<>>
    /\ releaseNote = <<>>

\* generateReleaseNotes has not been entered
\* no pipe, no curl handle and no header list is held
NoResources == [pipes |-> 0, curls |-> 0, headers |-> 0]

GenerateIdle ==
    /\ releaseNoteSource = "CommitMessages"
    /\ releaseNotesMode = "Short"
    /\ markdownReleaseNotes = <<>>
    /\ sectionNotes = <<>>
    /\ commitTypeContainsReleaseNotes = FALSE
    /\ pullRequestInfo = [title |-> JsonNull, body |-> JsonNull]
    /\ records = <<>>
    /\ fetches = <<>>
    /\ sections = <<>>
    /\ files = [markdown |-> NoFile, html |-> NoFile]
    /\ conversions = <<>>
    /\ resources = NoResources
    /\ gitLog = <<>>
    /\ pipe = <<>>
    /\ externalConfigData = JsonNull
    /\ pullRequestChangeNote = <<>>
    /\ exitCode = -1

-----------------------------------------------------------------------------
(* Config.cpp: Config::load, the commit types                              *)

\* string commitTypes[50][2]
CommitTypesCapacity == 50

\* a key of the configuration file: absent (empty stands for the value it
\* does not have), or present with a value
NoKey(empty) == [present |-> FALSE, value |-> empty]

Key(value) == [present |-> TRUE, value |-> value]

\* an entry of the array "commitTypes": an object with or without its two keys
CommitTypeEntry(hasConventionalType, hasMarkdownTitle) ==
    [conventionalType |-> IF hasConventionalType THEN Key(<<"f">>) ELSE NoKey(<<>>),
     markdownTitle |-> IF hasMarkdownTitle THEN Key(<<"F">>) ELSE NoKey(<<>>)]

\* an array of n complete entries
CommitTypeEntries(n) == [j \in 1..n |-> CommitTypeEntry(TRUE, TRUE)]

\* the values of the key "commitTypesCount" drawn
CommitTypesCounts == {0, 1, 2, CommitTypesCapacity, CommitTypesCapacity + 1}

\* the values of the key "commitTypes" drawn: not an array, and arrays of 0
\* to 51 entries, one of them with an entry that lacks a key
CommitTypesValues ==
    { [is_array |-> FALSE, entries |-> <<>>] }
    \cup { [is_array |-> TRUE, entries |-> CommitTypeEntries(n)] : n \in CommitTypesCounts }
    \cup { [is_array |-> TRUE,
            entries |-> <<CommitTypeEntry(TRUE, TRUE), CommitTypeEntry(has, ~has)>>] :
                has \in BOOLEAN }

\* the other keys load asks for: all there, or one is missing among those
\* read before "commitTypesCount", between it and "commitTypes", or after
OtherKeys == {"all", "before", "between", "after"}

\* the configuration files: the other keys, and the two keys of the commit
\* types, absent or with a value
ConfigFiles ==
    [otherKeys : OtherKeys,
     commitTypesCount : {NoKey(0)} \cup {Key(n) : n \in CommitTypesCounts},
     commitTypes : {NoKey([is_array |-> FALSE, entries |-> <<>>])} \cup {Key(v) : v \in CommitTypesValues}]

\* the rows of the registry load has assigned so far, inside the array and
\* outside of it
RowsAssigned == Len(config.commitTypes) + Len(config.outside)

\* the entry the loop of load is at
CurrentEntry == externalConfigData.commitTypes.value.entries[RowsAssigned + 1]

\* Config::load is called on the global Config, whose commitTypesCount is
\* zero and whose rows are empty
InitLoad ==
    /\ pc = "load"
    /\ externalConfigData \in ConfigFiles
    /\ config = [commitTypesCount |-> 0, commitTypes |-> <<>>, outside |-> <<>>]
    /\ commitMessage = <<>>
    /\ commitTypeIndex = 0
    /\ matchResult = "none"
    /\ subCategoryText = <<>>
    /\ pullRequestBody = <<>>
    /\ result = <<>>
    /\ numberOfNewCharactersAdded = 0
    /\ pending = <<>>
    /\ replaced = <<>>
    /\ NotesIdle
    /\ releaseNoteSource = "CommitMessages"
    /\ releaseNotesMode = "Short"
    /\ markdownReleaseNotes = <<>>
    /\ sectionNotes = <<>>
    /\ commitTypeContainsReleaseNotes = FALSE
    /\ pullRequestInfo = [title |-> JsonNull, body |-> JsonNull]
    /\ records = <<>>
    /\ fetches = <<>>
    /\ sections = <<>>
    /\ files = [markdown |-> NoFile, html |-> NoFile]
    /\ conversions = <<>>
    /\ resources = NoResources
    /\ gitLog = <<>>
    /\ pipe = <<>>
    /\ pullRequestChangeNote = <<>>
    /\ exitCode = -1

\* the keys before "commitTypes" are read: commitTypesCount is assigned and
\* is 1 at least
ReadCommitTypesCount ==
    /\ pc = "load"
    /\ externalConfigData.otherKeys # "before"
    /\ externalConfigData.commitTypesCount.present
    /\ externalConfigData.commitTypesCount.value >= 1
    /\ config' = [config EXCEPT !.commitTypesCount = externalConfigData.commitTypesCount.value]
    /\ pc' = "countRead"
    /\ UNCHANGED <<classifyVars, formatVars, noteVars, generateVars>>

\* a key read before is missing, "commitTypesCount" is missing, or its value
\* is smaller than 1: load throws
\* (commitTypesCount has been assigned when it is the value that is refused)
ThrowForCommitTypesCount ==
    /\ pc = "load"
    /\ \/ externalConfigData.otherKeys = "before"
       \/ ~externalConfigData.commitTypesCount.present
       \/ externalConfigData.commitTypesCount.value < 1
    /\ config' = IF externalConfigData.otherKeys # "before" /\ externalConfigData.commitTypesCount.present
                 THEN [config EXCEPT !.commitTypesCount =
                                         externalConfigData.commitTypesCount.value]
                 ELSE config
    /\ pc' = "loadThrown"
    /\ UNCHANGED <<classifyVars, formatVars, noteVars, generateVars>>

\* "commitTypes" is an array of commitTypesCount entries
CheckCommitTypesArray ==
    /\ pc = "countRead"
    /\ externalConfigData.otherKeys # "between"
    /\ externalConfigData.commitTypes.present
    /\ externalConfigData.commitTypes.value.is_array
    /\ config.commitTypesCount = Len(externalConfigData.commitTypes.value.entries)
    /\ pc' = "storing"
    /\ UNCHANGED <<config, classifyVars, formatVars, noteVars, generateVars>>

\* a key read before "commitTypes" is missing, or "commitTypes" is missing,
\* is not an array or has another size: load throws
ThrowForCommitTypesArray ==
    /\ pc = "countRead"
    /\ \/ externalConfigData.otherKeys = "between"
       \/ ~externalConfigData.commitTypes.present
       \/ ~externalConfigData.commitTypes.value.is_array
       \/ config.commitTypesCount # Len(externalConfigData.commitTypes.value.entries)
    /\ pc' = "loadThrown"
    /\ UNCHANGED <<config, classifyVars, formatVars, noteVars, generateVars>>

\* a turn of the loop for an entry with both keys and a row of the array
StoreCommitType ==
    /\ pc = "storing"
    /\ RowsAssigned < config.commitTypesCount
    /\ CurrentEntry.conventionalType.present
    /\ CurrentEntry.markdownTitle.present
    /\ RowsAssigned < CommitTypesCapacity
    /\ config' = [config EXCEPT !.commitTypes =
                     Append(@, CommitType(CurrentEntry.conventionalType.value,
                                          CurrentEntry.markdownTitle.value))]
    /\ UNCHANGED <<pc, classifyVars, formatVars, noteVars, generateVars>>

\* a turn of the loop for an entry with both keys and an index past the
\* array: the assignment to commitTypes[i] with i >= 50 is undefined, it
\* writes over what lies behind the array and the loop goes on, or the
\* program crashes
StoreOutsideArray ==
    /\ pc = "storing"
    /\ RowsAssigned < config.commitTypesCount
    /\ CurrentEntry.conventionalType.present
    /\ CurrentEntry.markdownTitle.present
    /\ RowsAssigned >= CommitTypesCapacity
    /\ \/ /\ config' = [config EXCEPT !.outside =
                            Append(@, CommitType(CurrentEntry.conventionalType.value,
                                                 CurrentEntry.markdownTitle.value))]
          /\ pc' = pc
       \/ /\ config' = config
          /\ pc' = "crashed"
    /\ UNCHANGED <<classifyVars, formatVars, noteVars, generateVars>>

\* a turn of the loop for an entry that lacks a key: load throws
ThrowForCommitType ==
    /\ pc = "storing"
    /\ RowsAssigned < config.commitTypesCount
    /\ ~CurrentEntry.conventionalType.present \/ ~CurrentEntry.markdownTitle.present
    /\ pc' = "loadThrown"
    /\ UNCHANGED <<config, classifyVars, formatVars, noteVars, generateVars>>

\* the loop is over and a key read after it is missing: load throws
ThrowForLaterKey ==
    /\ pc = "storing"
    /\ RowsAssigned = config.commitTypesCount
    /\ externalConfigData.otherKeys = "after"
    /\ pc' = "loadThrown"
    /\ UNCHANGED <<config, classifyVars, formatVars, noteVars, generateVars>>

\* the loop is over and the keys read after it are there: load returns
ReturnFromLoad ==
    /\ pc = "storing"
    /\ RowsAssigned = config.commitTypesCount
    /\ externalConfigData.otherKeys = "all"
    /\ pc' = "loaded"
    /\ UNCHANGED <<config, classifyVars, formatVars, noteVars, generateVars>>

NextLoad ==
    \/ ReadCommitTypesCount
    \/ ThrowForCommitTypesCount
    \/ CheckCommitTypesArray
    \/ ThrowForCommitTypesArray
    \/ StoreCommitType
    \/ StoreOutsideArray
    \/ ThrowForCommitType
    \/ ThrowForLaterKey
    \/ ReturnFromLoad

SpecLoad == InitLoad /\ [][NextLoad]_vars

-----------------------------------------------------------------------------
(* Utils.cpp: checkCommitTypeMatch                                         *)

\* a slip of checkCommitTypeMatch: the second test only asks whether the
\* message starts with the type's name
checkCommitTypeMatchStartsWith(message, typeIndex) ==
    LET correctCommitType == config.commitTypes[typeIndex + 1].ConventionalName
    IN  IF Substr(message, 0, Find(message, ":")) = correctCommitType
        THEN "MatchWithoutSubCategory"
        ELSE IF Substr(message, 0, Len(correctCommitType)) = correctCommitType
        THEN "MatchWithSubCategory"
        ELSE "NoMatch"

\* a slip of checkCommitTypeMatch: the two tests in the opposite order
checkCommitTypeMatchParenFirst(message, typeIndex) ==
    LET correctCommitType == config.commitTypes[typeIndex + 1].ConventionalName
    IN  IF Substr(message, 0, Find(message, "(")) = correctCommitType
        THEN "MatchWithSubCategory"
        ELSE IF Substr(message, 0, Find(message, ":")) = correctCommitType
        THEN "MatchWithoutSubCategory"
        ELSE "NoMatch"

checkCommitTypeMatch(message, typeIndex) ==
    LET correctCommitType == config.commitTypes[typeIndex + 1].ConventionalName
    IN  IF Substr(message, 0, Find(message, ":")) = correctCommitType
        THEN "MatchWithoutSubCategory"
        ELSE IF Substr(message, 0, Find(message, "(")) = correctCommitType
        THEN "MatchWithSubCategory"
        ELSE "NoMatch"

\* release_notes_generator.cpp, getCommitsNotesFromCommitMessages: the sub
\* category title built for a message matched with a sub category
SubCategoryTitle(message) ==
    LET startPos == AddSizeT(Find(message, "("), 1)
    IN  <<" ", "(">>
        \o Substr(message, startPos, SubSizeT(Find(message, ")"), startPos))
        \o <<" ", "R", "e", "l", "a", "t", "e", "d", ")", " ">>

\* characters of the commit titles drawn
TitleChars == {"f", "x", ":", "(", ")", " "}

Titles == SeqsUpTo(TitleChars, MaxTitleLen)

InitClassify ==
    /\ pc = "classify"
    /\ config \in Configs
    /\ config.repoIssuesUrl = <<>>
    /\ config.repoCommitsUrl = <<>>
    /\ commitMessage \in Titles
    /\ commitTypeIndex \in 0..(commitTypesCount - 1)
    /\ matchResult = "none"
    /\ subCategoryText = <<>>
    /\ pullRequestBody = <<>>
    /\ result = <<>>
    /\ numberOfNewCharactersAdded = 0
    /\ pending = <<>>
    /\ replaced = <<>>
    /\ NotesIdle
    /\ GenerateIdle

\* the call of checkCommitTypeMatch on a commit message read from git log
CheckCommitTypeMatch ==
    /\ pc = "classify"
    /\ matchResult' = checkCommitTypeMatch(commitMessage, commitTypeIndex)
    /\ pc' = "matched"
    /\ UNCHANGED <<config, commitMessage, commitTypeIndex, subCategoryText, formatVars, noteVars, generateVars>>

\* the branch taken for a match: the sub category title is built when there is one
BuildSubCategory ==
    /\ pc = "matched"
    /\ matchResult # "NoMatch"
    /\ subCategoryText' = IF matchResult = "MatchWithSubCategory"
                          THEN SubCategoryTitle(commitMessage)
                          ELSE <<>>
    /\ pc' = "noted"
    /\ UNCHANGED <<config, commitMessage, commitTypeIndex, matchResult, formatVars, noteVars, generateVars>>

\* the message matches no commit type: the loop goes on to the next line
SkipNoMatch ==
    /\ pc = "matched"
    /\ matchResult = "NoMatch"
    /\ pc' = "skipped"
    /\ UNCHANGED <<config, classifyVars, formatVars, noteVars, generateVars>>

\* release_notes_generator.cpp, getCommitsNotesFromCommitMessages: the
\* position from which the description is taken, two past the first ':'
DescriptionPosition(message) == AddSizeT(Find(message, ":"), 2)

\* release_notes_generator.cpp, getCommitsNotesFromCommitMessages: the line
\* made of the message: the prefix, the description and a line feed, then the
\* character after the prefix upper-cased, then the sub category title
\* inserted after the prefix
ReleaseNoteOfCommitMessage(message, subCategory) ==
    LET prefix == config.markdownReleaseNotePrefix
        line == prefix \o Substr(message, DescriptionPosition(message), npos)
                \o <<"\n">>
        capitalized == [line EXCEPT ![Len(prefix) + 1] = toupper(@)]
    IN  Insert(capitalized, Len(prefix), subCategory)

\* the rest of the branch taken for a match: the release note line is built
BuildReleaseNote ==
    /\ pc = "noted"
    /\ DescriptionPosition(commitMessage) <= Len(commitMessage)
    /\ releaseNote' = ReleaseNoteOfCommitMessage(commitMessage, subCategoryText)
    /\ pc' = "lineBuilt"
    /\ UNCHANGED <<config, classifyVars, formatVars, applications, generateVars>>

\* substr is asked for a position past the end of the message: it throws
\* std::out_of_range
ThrowOutOfRange ==
    /\ pc = "noted"
    /\ DescriptionPosition(commitMessage) > Len(commitMessage)
    /\ pc' = "outOfRange"
    /\ UNCHANGED <<config, classifyVars, formatVars, noteVars, generateVars>>

NextClassify ==
    \/ CheckCommitTypeMatch
    \/ BuildSubCategory
    \/ SkipNoMatch
    \/ BuildReleaseNote
    \/ ThrowOutOfRange

SpecClassify == InitClassify /\ [][NextClassify]_vars

-----------------------------------------------------------------------------
(* Format.h: convertConventionalCommitTitleToReleaseNoteTitle              *)

\* s with its first character upper-cased, the empty string as it is
Capitalized(s) == IF s = <<>> THEN s ELSE <<toupper(s[1])>> \o Tail(s)

\* the title without its conventional type: what follows the first ':' and
\* the one space after it; a title without ':' is kept whole
WithoutConventionalType(title) ==
    LET colonPosition == Find(title, ":")
        rest == Substr(title, colonPosition + 1, npos)
    IN  IF colonPosition = npos THEN title
        ELSE IF rest # <<>> /\ rest[1] = " " THEN Tail(rest)
        ELSE rest

\* the sub category of the title: the text between its first '(' and the
\* first ')' that follows it, up to the end when none follows
SubCategoryOf(title) ==
    LET startPos == Find(title, "(") + 1
        endPos == FindFrom(title, ")", startPos)
    IN  IF Find(title, "(") = npos THEN <<>>
        ELSE Substr(title, startPos, endPos - startPos)

\* the declared function: the prefix, "(Sub category Related) " for a title
\* matched with a sub category, the capitalized description and a line feed
convertConventionalCommitTitleToReleaseNoteTitle(conventionalCommitTitle, result_, markdownPrefix) ==
    markdownPrefix
    \o (IF result_ = "MatchWithSubCategory"
        THEN <<"(">> \o Capitalized(SubCategoryOf(conventionalCommitTitle))
             \o <<" ", "R", "e", "l", "a", "t", "e", "d", ")", " ">>
        ELSE <<>>)
    \o Capitalized(WithoutConventionalType(conventionalCommitTitle))
    \o <<"\n">>

\* Main.cpp, getCommitsNotesFromCommitMessages: the title that matches the
\* commit type is converted with the prefix of the short mode
ConvertTitle ==
    /\ pc = "matched"
    /\ matchResult # "NoMatch"
    /\ releaseNote' = convertConventionalCommitTitleToReleaseNoteTitle(
                          commitMessage, matchResult, config.markdownReleaseNotePrefix)
    /\ pc' = "converted"
    /\ UNCHANGED <<config, classifyVars, formatVars, applications, generateVars>>

NextConvert == CheckCommitTypeMatch \/ ConvertTitle \/ SkipNoMatch

SpecConvert == InitClassify /\ [][NextConvert]_vars

-----------------------------------------------------------------------------
(* Format.cpp: the regular expressions                                     *)

\* the class \d
Digits == {"0", "1", "2", "3", "4", "5", "6", "7", "8", "9"}

\* the class [0-9a-f]
HexChars == Digits \cup {"a", "b", "c", "d", "e", "f"}

\* the class [ (]
LeftDelimiters == {" ", "("}

\* the class [ )]
RightDelimiters == {" ", ")"}

\* the quantifier {6,40} of commitShaPattern
MinShaLength == 6

MaxShaLength == 40

\* the length of the link text, currentSha.substr(0, 6)
ShortShaLength == 6

RECURSIVE RunLength(_, _, _)
\* the number of consecutive characters of the class C in s from position from
RunLength(s, from, C) ==
    IF from < Len(s) /\ s[from + 1] \in C
    THEN 1 + RunLength(s, from + 1, C)
    ELSE 0

\* the greatest element of a non-empty set of numbers
Max(S) == CHOOSE x \in S : \A y \in S : y <= x

\* the smatch of a match: position(), length() and str(1)
Match(p, l, g) == [position |-> p, length |-> l, group |-> g]

\* a slip of hashIdPattern: a hash id that follows '[', as the text of a link
\* does, is not matched
HashIdMatchAtOutsideLinks(s, p) ==
    LET n == RunLength(s, p + 1, Digits)
    IN  IF s[p + 1] = "#" /\ n >= 1 /\ ~(p >= 1 /\ s[p] = "[")
        THEN <<Match(p, 1 + n, Substr(s, p + 1, n))>>
        ELSE <<>>

\* hashIdPattern #(\d+) tried at position p: the greedy \d+ takes the whole
\* run of digits; <<>> when the pattern does not match there
HashIdMatchAt(s, p) ==
    LET n == RunLength(s, p + 1, Digits)
    IN  IF s[p + 1] = "#" /\ n >= 1
        THEN <<Match(p, 1 + n, Substr(s, p + 1, n))>>
        ELSE <<>>

\* a slip of commitShaPattern: the quantifier {6,} with no upper limit
CommitShaMatchAtNoUpperLimit(s, p) ==
    LET run == RunLength(s, p + 1, HexChars)
        fits == {k \in MinShaLength..run :
                    /\ p + 1 + k < Len(s)
                    /\ s[p + 1 + k + 1] \in RightDelimiters}
    IN  IF s[p + 1] \in LeftDelimiters /\ fits # {}
        THEN <<Match(p, Max(fits) + 2, Substr(s, p + 1, Max(fits)))>>
        ELSE <<>>

\* commitShaPattern [ (]([0-9a-f]{6,40})[ )] tried at position p: the greedy
\* quantifier takes the most characters after which the closing class matches
CommitShaMatchAt(s, p) ==
    LET run == RunLength(s, p + 1, HexChars)
        fits == {k \in MinShaLength..Min(run, MaxShaLength) :
                    /\ p + 1 + k < Len(s)
                    /\ s[p + 1 + k + 1] \in RightDelimiters}
    IN  IF s[p + 1] \in LeftDelimiters /\ fits # {}
        THEN <<Match(p, Max(fits) + 2, Substr(s, p + 1, Max(fits)))>>
        ELSE <<>>

RECURSIVE HashIdMatchesFrom(_, _)
\* the matches sregex_iterator yields for hashIdPattern, searching from
\* position from: the leftmost match, then on from its end
HashIdMatchesFrom(s, from) ==
    IF from >= Len(s) THEN <<>>
    ELSE LET m == HashIdMatchAt(s, from)
         IN  IF m # <<>>
             THEN m \o HashIdMatchesFrom(s, from + m[1].length)
             ELSE HashIdMatchesFrom(s, from + 1)

RECURSIVE CommitShaMatchesFrom(_, _)
\* the matches sregex_iterator yields for commitShaPattern
CommitShaMatchesFrom(s, from) ==
    IF from >= Len(s) THEN <<>>
    ELSE LET m == CommitShaMatchAt(s, from)
         IN  IF m # <<>>
             THEN m \o CommitShaMatchesFrom(s, from + m[1].length)
             ELSE CommitShaMatchesFrom(s, from + 1)

-----------------------------------------------------------------------------
(* Format.cpp: replaceHashIdsWithLinks                                     *)

\* "[#" + currentNumericId + "](" + config.repoIssuesUrl + currentNumericId + ")"
HashIdLink(currentNumericId) ==
    <<"[", "#">> \o currentNumericId \o <<"]", "(">>
    \o config.repoIssuesUrl \o currentNumericId \o <<")">>

\* a slip of the bookkeeping: the length of the id is left out
HashIdCharactersAddedWithoutId(currentNumericId) ==
    4 + Len(config.repoIssuesUrl)

\* the characters one replacement adds to the result
HashIdCharactersAdded(currentNumericId) ==
    4 + Len(config.repoIssuesUrl) + Len(currentNumericId)

\* characters of the bodies drawn for the hash id rewrite
HashBodyChars == {"#", "1", "2", "x", " "}

HashBodies == SeqsUpTo(HashBodyChars, MaxBodyLen)

InitHashIds ==
    /\ pc = "hashIds"
    /\ config \in Configs
    /\ config.commitTypes = DefaultRegistry
    /\ config.repoCommitsUrl = <<>>
    /\ pullRequestBody \in HashBodies
    /\ result = <<>>
    /\ numberOfNewCharactersAdded = 0
    /\ pending = <<>>
    /\ replaced = <<>>
    /\ commitMessage = <<>>
    /\ commitTypeIndex = 0
    /\ matchResult = "none"
    /\ subCategoryText = <<>>
    /\ NotesIdle
    /\ GenerateIdle

\* the function is entered: result is a copy of the body, the iterator is built
EnterReplaceHashIds ==
    /\ pc = "hashIds"
    /\ result' = pullRequestBody
    /\ numberOfNewCharactersAdded' = 0
    /\ pending' = HashIdMatchesFrom(pullRequestBody, 0)
    /\ replaced' = <<>>
    /\ pc' = "hashIdsLoop"
    /\ UNCHANGED <<config, pullRequestBody, classifyVars, noteVars, generateVars>>

\* one turn of the loop: the hash id is erased and its link inserted
ReplaceHashId ==
    /\ pc = "hashIdsLoop"
    /\ pending # <<>>
    /\ LET currentHashIdMatch == Head(pending)
           currentNumericId == currentHashIdMatch.group
           at == currentHashIdMatch.position + numberOfNewCharactersAdded
       IN  /\ result' = Insert(Erase(result, at, currentHashIdMatch.length),
                               at, HashIdLink(currentNumericId))
           /\ numberOfNewCharactersAdded' =
                  numberOfNewCharactersAdded + HashIdCharactersAdded(currentNumericId)
           /\ replaced' = Append(replaced, currentHashIdMatch)
    /\ pending' = Tail(pending)
    /\ UNCHANGED <<pc, config, pullRequestBody, classifyVars, noteVars, generateVars>>

\* the iterator is at its end: result is returned
ReturnHashIds ==
    /\ pc = "hashIdsLoop"
    /\ pending = <<>>
    /\ pc' = "hashIdsDone"
    /\ UNCHANGED <<config, formatVars, classifyVars, noteVars, generateVars>>

NextHashIds == EnterReplaceHashIds \/ ReplaceHashId \/ ReturnHashIds

SpecHashIds == InitHashIds /\ [][NextHashIds]_vars

\* replaceHashIdsWithLinks is called on the string its first call returned
ApplyHashIdsAgain ==
    /\ pc = "hashIdsDone"
    /\ applications = <<>>
    /\ applications' = <<[body |-> pullRequestBody, result |-> result]>>
    /\ pullRequestBody' = result
    /\ pc' = "hashIds"
    /\ UNCHANGED <<config, result, numberOfNewCharactersAdded, pending, replaced,
                   classifyVars, releaseNote, generateVars>>

NextHashIdsTwice == NextHashIds \/ ApplyHashIdsAgain

SpecHashIdsTwice == InitHashIds /\ [][NextHashIdsTwice]_vars

-----------------------------------------------------------------------------
(* Format.cpp: replaceCommitShasWithLinks                                  *)

\* " [" + currentSha.substr(0, 6) + "](" + config.repoCommitsUrl + currentSha + ") "
CommitShaLink(currentSha) ==
    <<" ", "[">> \o Substr(currentSha, 0, ShortShaLength) \o <<"]", "(">>
    \o config.repoCommitsUrl \o currentSha \o <<")", " ">>

\* the characters one replacement adds to the result
CommitShaCharactersAdded == 4 + Len(config.repoCommitsUrl) + ShortShaLength

\* a run of n hex characters
HexRun(n) ==
    LET cycle == <<"a", "1", "b", "2", "c", "3", "d">>
    IN  [i \in 1..n |-> cycle[((i - 1) % Len(cycle)) + 1]]

\* a commit SHA that is already a markdown link, as in the tests
LinkedSha(sha) ==
    <<"[">> \o sha \o <<"]", "(", "u", "/">> \o sha \o <<")">>

\* the words of the bodies drawn for the SHA rewrite
ShaWords ==
    { HexRun(MinShaLength - 1), HexRun(MinShaLength), HexRun(MaxShaLength),
      HexRun(MaxShaLength + 1), LinkedSha(HexRun(MinShaLength + 2)) }

\* what stands between two words
ShaSeparators == { <<>>, <<" ">>, <<" ", " ">>, <<"(">>, <<")">>, <<",">>, <<"\n">> }

\* what stands before the first word
LeadingSeparators == { <<>>, <<" ">>, <<"(">> }

\* what stands after the last word
TrailingSeparators == { <<>>, <<" ">>, <<")">>, <<",">>, <<"\n">> }

RECURSIVE JoinWords(_, _, _)
\* the words ws from the k-th on, seps[i] between the i-th and the next
JoinWords(ws, seps, k) ==
    IF k > Len(ws) THEN <<>>
    ELSE ws[k] \o (IF k < Len(ws) THEN seps[k] ELSE <<>>) \o JoinWords(ws, seps, k + 1)

\* a body is drawn: up to MaxWords words, separators between and around them
DrawShaBody(body) ==
    \E n \in 0..MaxWords :
        IF n = 0 THEN body \in ShaSeparators
        ELSE \E l \in LeadingSeparators, t \in TrailingSeparators,
                ws \in [1..n -> ShaWords], seps \in [1..(n - 1) -> ShaSeparators] :
                 body = l \o JoinWords(ws, seps, 1) \o t

InitCommitShas ==
    /\ pc = "commitShas"
    /\ config \in Configs
    /\ config.commitTypes = DefaultRegistry
    /\ config.repoIssuesUrl = <<>>
    /\ config.repoCommitsUrl # <<>>
    /\ DrawShaBody(pullRequestBody)
    /\ result = <<>>
    /\ numberOfNewCharactersAdded = 0
    /\ pending = <<>>
    /\ replaced = <<>>
    /\ commitMessage = <<>>
    /\ commitTypeIndex = 0
    /\ matchResult = "none"
    /\ subCategoryText = <<>>
    /\ NotesIdle
    /\ GenerateIdle

\* the function is entered: result is a copy of the body, the iterator is built
EnterReplaceCommitShas ==
    /\ pc = "commitShas"
    /\ result' = pullRequestBody
    /\ numberOfNewCharactersAdded' = 0
    /\ pending' = CommitShaMatchesFrom(pullRequestBody, 0)
    /\ replaced' = <<>>
    /\ pc' = "commitShasLoop"
    /\ UNCHANGED <<config, pullRequestBody, classifyVars, noteVars, generateVars>>

\* one turn of the loop: the match, delimiters included, is erased and the
\* link, with a space on either side, inserted
ReplaceCommitSha ==
    /\ pc = "commitShasLoop"
    /\ pending # <<>>
    /\ LET currentShaMatch == Head(pending)
           currentSha == currentShaMatch.group
           at == currentShaMatch.position + numberOfNewCharactersAdded
       IN  /\ result' = Insert(Erase(result, at, currentShaMatch.length),
                               at, CommitShaLink(currentSha))
           /\ numberOfNewCharactersAdded' =
                  numberOfNewCharactersAdded + CommitShaCharactersAdded
           /\ replaced' = Append(replaced, currentShaMatch)
    /\ pending' = Tail(pending)
    /\ UNCHANGED <<pc, config, pullRequestBody, classifyVars, noteVars, generateVars>>

\* the iterator is at its end: result is returned
ReturnCommitShas ==
    /\ pc = "commitShasLoop"
    /\ pending = <<>>
    /\ pc' = "commitShasDone"
    /\ UNCHANGED <<config, formatVars, classifyVars, noteVars, generateVars>>

NextCommitShas == EnterReplaceCommitShas \/ ReplaceCommitSha \/ ReturnCommitShas

SpecCommitShas == InitCommitShas /\ [][NextCommitShas]_vars

-----------------------------------------------------------------------------
(* Format.cpp: removeExtraNewLines                                         *)

RECURSIVE RegexReplaceCarriageReturnsOneSpace(_)
\* a slip of removeExtraNewLines: one space for a carriage return
RegexReplaceCarriageReturnsOneSpace(s) ==
    IF s = <<>> THEN <<>>
    ELSE (IF Head(s) = "\r" THEN <<" ">> ELSE <<Head(s)>>)
         \o RegexReplaceCarriageReturnsOneSpace(Tail(s))

RECURSIVE RegexReplaceCarriageReturns(_)
\* regex_replace(s, regex(R"(\r)"), "  "): what does not match is copied,
\* every match is replaced by the format string
RegexReplaceCarriageReturns(s) ==
    IF s = <<>> THEN <<>>
    ELSE (IF Head(s) = "\r" THEN <<" ", " ">> ELSE <<Head(s)>>)
         \o RegexReplaceCarriageReturns(Tail(s))

\* characters of the bodies drawn for the line ending rewrite
NewLineBodyChars == {"\r", "\n", "x", " "}

NewLineBodies == SeqsUpTo(NewLineBodyChars, MaxBodyLen)

InitNewLines ==
    /\ pc = "newLines"
    /\ config \in Configs
    /\ config.commitTypes = DefaultRegistry
    /\ config.repoIssuesUrl = <<>>
    /\ config.repoCommitsUrl = <<>>
    /\ pullRequestBody \in NewLineBodies
    /\ result = <<>>
    /\ numberOfNewCharactersAdded = 0
    /\ pending = <<>>
    /\ replaced = <<>>
    /\ commitMessage = <<>>
    /\ commitTypeIndex = 0
    /\ matchResult = "none"
    /\ subCategoryText = <<>>
    /\ NotesIdle
    /\ GenerateIdle

\* the whole of removeExtraNewLines
RemoveExtraNewLines ==
    /\ pc = "newLines"
    /\ result' = RegexReplaceCarriageReturns(pullRequestBody)
    /\ pc' = "newLinesDone"
    /\ UNCHANGED <<config, pullRequestBody, numberOfNewCharactersAdded, pending,
                   replaced, classifyVars, noteVars, generateVars>>

NextNewLines == RemoveExtraNewLines

SpecNewLines == InitNewLines /\ [][NextNewLines]_vars

-----------------------------------------------------------------------------
(* Format.cpp: formatPullRequestBody                                       *)

RECURSIVE ReplaceHashIdsLoop(_, _, _)
\* the loop of replaceHashIdsWithLinks over the matches ms, the result and
\* the number of characters added as the turns before left them
ReplaceHashIdsLoop(res, ms, added) ==
    IF ms = <<>> THEN res
    ELSE LET currentHashIdMatch == Head(ms)
             at == currentHashIdMatch.position + added
         IN  ReplaceHashIdsLoop(
                 Insert(Erase(res, at, currentHashIdMatch.length), at,
                        HashIdLink(currentHashIdMatch.group)),
                 Tail(ms), added + HashIdCharactersAdded(currentHashIdMatch.group))

\* the value replaceHashIdsWithLinks returns
replaceHashIdsWithLinks(body) ==
    ReplaceHashIdsLoop(body, HashIdMatchesFrom(body, 0), 0)

RECURSIVE ReplaceCommitShasLoop(_, _, _)
\* the loop of replaceCommitShasWithLinks
ReplaceCommitShasLoop(res, ms, added) ==
    IF ms = <<>> THEN res
    ELSE LET currentShaMatch == Head(ms)
             at == currentShaMatch.position + added
         IN  ReplaceCommitShasLoop(
                 Insert(Erase(res, at, currentShaMatch.length), at,
                        CommitShaLink(currentShaMatch.group)),
                 Tail(ms), added + CommitShaCharactersAdded)

\* the value replaceCommitShasWithLinks returns
replaceCommitShasWithLinks(body) ==
    ReplaceCommitShasLoop(body, CommitShaMatchesFrom(body, 0), 0)

\* the value removeExtraNewLines returns
removeExtraNewLines(body) == RegexReplaceCarriageReturns(body)

formatPullRequestBody(body) ==
    removeExtraNewLines(replaceCommitShasWithLinks(replaceHashIdsWithLinks(body)))

\* an issue id of n digits
IssueId(n) ==
    LET cycle == <<"1", "2", "3">>
    IN  [j \in 1..n |-> cycle[((j - 1) % Len(cycle)) + 1]]

\* the lengths of the issue ids drawn: one digit, and as many as the
\* shortest commit SHA has, one fewer and one more
IssueIdLengths == {1, MinShaLength - 1, MinShaLength, MinShaLength + 1}

\* what stands before and after a hash id in the bodies drawn
HashIdLeads == { <<>>, <<" ">>, <<"(">>, <<"x", " ">> }

HashIdTrails ==
    { <<>>, <<" ">>, <<")">>, <<"\r", "\n">>, <<" ">> \o HexRun(MinShaLength) \o <<" ">> }

\* a second hash id that may follow the first one
SecondHashIds == { <<>>, <<"#", "1">>, <<" ", "#">> \o IssueId(MinShaLength) }

\* the bodies drawn for formatPullRequestBody: a hash id between a lead and
\* a trail, and a second one or none after them
DrawHashIdBody(body) ==
    \E lead \in HashIdLeads, n \in IssueIdLengths, trail \in HashIdTrails,
       second \in SecondHashIds :
        body = lead \o <<"#">> \o IssueId(n) \o trail \o second

\* the call of a rewriter that has returned
Application(body, returned) == [body |-> body, result |-> returned]

InitFormat ==
    /\ pc = "format"
    /\ config \in Configs
    /\ config.commitTypes = DefaultRegistry
    /\ DrawHashIdBody(pullRequestBody)
    /\ result = <<>>
    /\ numberOfNewCharactersAdded = 0
    /\ pending = <<>>
    /\ replaced = <<>>
    /\ commitMessage = <<>>
    /\ commitTypeIndex = 0
    /\ matchResult = "none"
    /\ subCategoryText = <<>>
    /\ NotesIdle
    /\ GenerateIdle

\* formatPullRequestBody: the three rewriters one after the other, each on
\* what the one before has returned
FormatPullRequestBody ==
    /\ pc = "format"
    /\ LET withLinks == replaceHashIdsWithLinks(pullRequestBody)
           withShaLinks == replaceCommitShasWithLinks(withLinks)
           withoutNewLines == removeExtraNewLines(withShaLinks)
       IN  /\ applications' = << Application(pullRequestBody, withLinks),
                                 Application(withLinks, withShaLinks),
                                 Application(withShaLinks, withoutNewLines) >>
           /\ result' = formatPullRequestBody(pullRequestBody)
    /\ pc' = "formatted"
    /\ UNCHANGED <<config, classifyVars, pullRequestBody, numberOfNewCharactersAdded,
                   pending, replaced, releaseNote, generateVars>>

NextFormat == FormatPullRequestBody

SpecFormat == InitFormat /\ [][NextFormat]_vars

-----------------------------------------------------------------------------
(* Format.cpp: indentAllLinesInString                                      *)

\* the four spaces put before a line
Indentation == <<" ", " ", " ", " ">>

RECURSIVE IndentFrom(_, _, _)
\* the loop over the characters of s from the k-th on, isNewLine as the
\* turn before left it
IndentFrom(s, k, isNewLine) ==
    IF k > Len(s) THEN <<>>
    ELSE (IF isNewLine THEN Indentation ELSE <<>>) \o <<s[k]>>
         \o IndentFrom(s, k + 1, s[k] = "\n")

RECURSIVE IndentAfterNewLineFrom(_, _)
\* the loop of the slip below
IndentAfterNewLineFrom(s, k) ==
    IF k > Len(s) THEN <<>>
    ELSE <<s[k]>> \o (IF s[k] = "\n" THEN Indentation ELSE <<>>)
         \o IndentAfterNewLineFrom(s, k + 1)

\* a slip of indentAllLinesInString: the spaces are put at the start and
\* after every line feed, whether or not a character follows
indentAllLinesInStringAfterNewLine(s) == Indentation \o IndentAfterNewLineFrom(s, 1)

indentAllLinesInString(s) == IndentFrom(s, 1, TRUE)

\* characters of the strings drawn for the indenting
IndentChars == {"\n", "x", " "}

IndentStrings == SeqsUpTo(IndentChars, MaxBodyLen)

InitIndent ==
    /\ pc = "indent"
    /\ config \in Configs
    /\ config.commitTypes = DefaultRegistry
    /\ config.repoIssuesUrl = <<>>
    /\ config.repoCommitsUrl = <<>>
    /\ pullRequestBody \in IndentStrings
    /\ result = <<>>
    /\ numberOfNewCharactersAdded = 0
    /\ pending = <<>>
    /\ replaced = <<>>
    /\ commitMessage = <<>>
    /\ commitTypeIndex = 0
    /\ matchResult = "none"
    /\ subCategoryText = <<>>
    /\ NotesIdle
    /\ GenerateIdle

\* the whole of indentAllLinesInString, called on the body
IndentAllLinesInString ==
    /\ pc = "indent"
    /\ result' = indentAllLinesInString(pullRequestBody)
    /\ pc' = "indentDone"
    /\ UNCHANGED <<config, pullRequestBody, numberOfNewCharactersAdded, pending,
                   replaced, classifyVars, noteVars, generateVars>>

NextIndent == IndentAllLinesInString

SpecIndent == InitIndent /\ [][NextIndent]_vars

-----------------------------------------------------------------------------
(* Main.cpp: addPullRequestInfoInNotes and getPullRequestInfo              *)

\* a slip of addPullRequestInfoInNotes: what is added is put in front of the
\* notes
addPullRequestInfoInFrontOfNotes(info, pullRequestsReleaseNotes, mode, typeIndex) ==
    LET title == info.title.value
        titleLine ==
            IF info.title.is_null THEN <<>>
            ELSE convertConventionalCommitTitleToReleaseNoteTitle(
                     title, checkCommitTypeMatch(title, typeIndex),
                     IF mode = "Full" THEN config.markdownFullModeReleaseNotePrefix
                     ELSE config.markdownReleaseNotePrefix)
        bodyBlock ==
            IF mode = "Full" /\ ~info.body.is_null
            THEN indentAllLinesInString(
                     formatPullRequestBody(Capitalized(info.body.value))) \o <<"\n">>
            ELSE <<>>
    IN  titleLine \o bodyBlock \o <<"\n">> \o pullRequestsReleaseNotes

\* the value pullRequestsReleaseNotes is given: the title line when the title
\* is not null, the formatted and indented body in the full mode when the
\* body is not null, and a line feed
addPullRequestInfoInNotes(info, pullRequestsReleaseNotes, mode, typeIndex) ==
    LET title == info.title.value
        titleLine ==
            IF info.title.is_null THEN <<>>
            ELSE convertConventionalCommitTitleToReleaseNoteTitle(
                     title, checkCommitTypeMatch(title, typeIndex),
                     IF mode = "Full" THEN config.markdownFullModeReleaseNotePrefix
                     ELSE config.markdownReleaseNotePrefix)
        bodyBlock ==
            IF mode = "Full" /\ ~info.body.is_null
            THEN indentAllLinesInString(
                     formatPullRequestBody(Capitalized(info.body.value))) \o <<"\n">>
            ELSE <<>>
    IN  pullRequestsReleaseNotes \o titleLine \o bodyBlock \o <<"\n">>

\* a slip of regex_search: the last match of prRegex is taken
RegexSearchLastHashId(s) ==
    LET ms == HashIdMatchesFrom(s, 0)
    IN  IF ms = <<>> THEN <<>> ELSE <<ms[Len(ms)]>>

\* regex_search(commitMessage, match, prRegex): the first match of #(\d+),
\* <<>> when there is none
RegexSearchHashId(s) ==
    LET ms == HashIdMatchesFrom(s, 0)
    IN  IF ms = <<>> THEN <<>> ELSE <<Head(ms)>>

\* what the GitHub API can do with a request: there is no curl handle, the
\* transfer fails, or a response comes with a status and a text that parses
\* as JSON or does not
Response(curl, resultCode, httpCode, parses, json) ==
    [curl |-> curl, resultCode |-> resultCode, httpCode |-> httpCode,
     parses |-> parses, json |-> json]

\* the JSON of an error response: an object without "title" and "body"
ErrorJson == [title |-> JsonNull, body |-> JsonNull]

\* the pull requests the API knows
PullRequestInfos ==
    { ErrorJson,
      [title |-> JsonString(<<"f", ":", " ", "x">>), body |-> JsonNull],
      [title |-> JsonString(<<"f", ":", " ", "x">>), body |-> JsonString(<<>>)],
      [title |-> JsonString(<<"f", "x", "(", "x", ")", ":", " ", "f">>),
       body |-> JsonString(<<"x", "\n", "#", "1">>)] }

\* the statuses getPullRequestInfo and handleGithubApiErrorCodes name, and
\* 502 for those they do not
HttpErrorCodes == {400, 401, 403, 404, 406, 422, 429, 500, 503, 502}

Responses ==
    { Response(FALSE, "none", 0, FALSE, ErrorJson),
      Response(TRUE, "CURLE_COULDNT_CONNECT", 0, FALSE, ErrorJson) }
    \cup { Response(TRUE, "CURLE_OK", 200, TRUE, info) : info \in PullRequestInfos }
    \cup { Response(TRUE, "CURLE_OK", code, parses, ErrorJson) :
               code \in HttpErrorCodes \cup {200}, parses \in BOOLEAN }

\* handleGithubApiErrorCodes throws
HandleGithubApiErrorCodesThrows(errorCode) ==
    IF errorCode = 429 \/ errorCode = 403 THEN TRUE
    ELSE IF errorCode = 401 THEN TRUE
    ELSE IF errorCode = 400 THEN TRUE
    ELSE FALSE

\* getPullRequestInfo throws; when it does not it returns the text of the
\* response
GetPullRequestInfoThrows(response) ==
    IF response.curl
    THEN IF response.resultCode = "CURLE_OK"
         THEN IF response.httpCode = 200 THEN FALSE
              ELSE IF response.httpCode \in {503, 500, 422, 406} THEN TRUE
              ELSE IF response.httpCode = 404 THEN TRUE
              ELSE HandleGithubApiErrorCodesThrows(response.httpCode)
         ELSE TRUE
    ELSE TRUE

\* the request reaches curl_easy_cleanup and curl_slist_free_all: it does
\* for a response with a status that is not 200 and for which nothing is
\* thrown; the status 200 returns and the others throw before them
ReachesCleanup(response, throws) ==
    /\ response.curl
    /\ response.resultCode = "CURLE_OK"
    /\ response.httpCode # 200
    /\ ~throws

\* what is held after a request of getPullRequestInfo or
\* convertMarkdownToHtml: the header list is always made, the handle when
\* curl_easy_init gives one, and both are released by the cleanup only
HeldAfterRequest(held, response, throws) ==
    IF ReachesCleanup(response, throws) THEN held
    ELSE [held EXCEPT !.curls = @ + (IF response.curl THEN 1 ELSE 0),
                      !.headers = @ + 1]

-----------------------------------------------------------------------------
(* Main.cpp: generateReleaseNotes and the two section functions            *)

\* lines fgets reads from the pipe of git log, each with its line feed: the
\* messages git log selects need not start with the conventional name (--grep
\* searches the whole message, %s prints the subject), nor hold a hash id
GitLogLines ==
    { <<"x", "\n">>,
      <<"f", ":", " ", "x", "\n">>,
      <<"f", ":", " ", "#", "1", "\n">>,
      <<"f", "x", "(", "x", ")", ":", " ", "#", "2", "#", "1", "\n">> }

\* what no action of generateReleaseNotes changes
generateFrame ==
    <<config, subCategoryText, formatVars, noteVars, releaseNoteSource, releaseNotesMode,
      pipeVars, loadVars, changeNoteVars>>

\* the record of a line read for the commit type
Record(line) == [commitTypeIndex |-> commitTypeIndex, commitMessage |-> line]

\* the record of a call of getPullRequestInfo
Fetch(line, number, response) ==
    [commitTypeIndex |-> commitTypeIndex, commitMessage |-> line,
     commitPullRequestNumber |-> number, response |-> response,
     thrown |-> GetPullRequestInfoThrows(response)]

\* main has called generateReleaseNotes: commit messages in the short mode,
\* pull requests in either mode
InitGenerate ==
    /\ pc = "generate"
    /\ config \in Configs
    /\ config.commitTypes = DefaultRegistry
    /\ config.repoIssuesUrl # <<>>
    /\ config.repoCommitsUrl # <<>>
    /\ releaseNoteSource \in {"CommitMessages", "PullRequests"}
    /\ releaseNotesMode \in {"Short", "Full"}
    /\ releaseNoteSource = "CommitMessages" => releaseNotesMode = "Short"
    /\ commitTypeIndex = 0
    /\ commitMessage = <<>>
    /\ matchResult = "none"
    /\ subCategoryText = <<>>
    /\ pullRequestBody = <<>>
    /\ result = <<>>
    /\ numberOfNewCharactersAdded = 0
    /\ pending = <<>>
    /\ replaced = <<>>
    /\ NotesIdle
    /\ markdownReleaseNotes = <<>>
    /\ sectionNotes = <<>>
    /\ commitTypeContainsReleaseNotes = FALSE
    /\ pullRequestInfo = ErrorJson
    /\ records = <<>>
    /\ fetches = <<>>
    /\ sections = <<>>
    /\ files = [markdown |-> NoFile, html |-> NoFile]
    /\ conversions = <<>>
    /\ resources = NoResources
    /\ gitLog = <<>>
    /\ pipe = <<>>
    /\ externalConfigData = JsonNull
    /\ pullRequestChangeNote = <<>>
    /\ exitCode = -1

\* a slip of markdownReleaseNotes += section: the section is put in front
PutSectionFirst(notes, section) == section \o notes

\* markdownReleaseNotes += the notes a section function returns
AppendSection(notes, section) == notes \o section

\* a section function is entered for the next commit type: the pipe is
\* opened and the title of the section added
EnterSection ==
    /\ pc = "generate"
    /\ commitTypeIndex < commitTypesCount
    /\ sectionNotes' = <<"\n">> \o config.commitTypes[commitTypeIndex + 1].MarkdownTitle
                       \o <<"\n">>
    /\ commitTypeContainsReleaseNotes' = FALSE
    /\ pc' = "section"
    /\ resources' = [resources EXCEPT !.pipes = @ + 1]
    /\ UNCHANGED <<generateFrame, conversions, commitMessage, commitTypeIndex, matchResult,
                   markdownReleaseNotes, pullRequestInfo, records, fetches, sections,
                   files, exitCode>>

\* popen returns NULL: the section function throws config.gitLogError
ThrowGitLogError ==
    /\ pc = "generate"
    /\ commitTypeIndex < commitTypesCount
    /\ pc' = "thrown"
    /\ UNCHANGED <<generateFrame, conversions, resources, commitMessage, commitTypeIndex, matchResult,
                   markdownReleaseNotes, sectionNotes, commitTypeContainsReleaseNotes,
                   pullRequestInfo, records, fetches, sections, files, exitCode>>

\* getCommitsNotesFromCommitMessages: one turn of the loop over the lines
ReadCommitMessage ==
    /\ pc = "section"
    /\ releaseNoteSource = "CommitMessages"
    /\ Len(records) < MaxRecords
    /\ \E line \in GitLogLines :
           /\ commitMessage' = line
           /\ matchResult' = checkCommitTypeMatch(line, commitTypeIndex)
           /\ sectionNotes' =
                  IF matchResult' # "NoMatch"
                  THEN sectionNotes \o convertConventionalCommitTitleToReleaseNoteTitle(
                                          line, matchResult', config.markdownReleaseNotePrefix)
                  ELSE sectionNotes
           /\ records' = Append(records, Record(line))
    /\ commitTypeContainsReleaseNotes' = TRUE
    /\ UNCHANGED <<generateFrame, conversions, resources, pc, commitTypeIndex, markdownReleaseNotes,
                   pullRequestInfo, fetches, sections, files, exitCode>>

\* getCommitsNotesFromPullRequests: a turn of the loop for a line that does
\* not match the commit type or holds no hash id
SkipPullRequestCommit ==
    /\ pc = "section"
    /\ releaseNoteSource = "PullRequests"
    /\ Len(records) < MaxRecords
    /\ \E line \in GitLogLines :
           /\ \/ checkCommitTypeMatch(line, commitTypeIndex) = "NoMatch"
              \/ RegexSearchHashId(line) = <<>>
           /\ commitMessage' = line
           /\ matchResult' = checkCommitTypeMatch(line, commitTypeIndex)
           /\ records' = Append(records, Record(line))
    /\ commitTypeContainsReleaseNotes' = TRUE
    /\ UNCHANGED <<generateFrame, conversions, resources, pc, commitTypeIndex, markdownReleaseNotes, sectionNotes,
                   pullRequestInfo, fetches, sections, files, exitCode>>

\* getCommitsNotesFromPullRequests: a turn of the loop for a matching line
\* with a hash id: the pull request is fetched, the response parsed and the
\* pull request added to the notes
AddPullRequest ==
    /\ pc = "section"
    /\ releaseNoteSource = "PullRequests"
    /\ Len(records) < MaxRecords
    /\ \E line \in GitLogLines, response \in Responses :
           /\ checkCommitTypeMatch(line, commitTypeIndex) # "NoMatch"
           /\ RegexSearchHashId(line) # <<>>
           /\ ~GetPullRequestInfoThrows(response)
           /\ response.parses
           /\ commitMessage' = line
           /\ matchResult' = checkCommitTypeMatch(line, commitTypeIndex)
           /\ records' = Append(records, Record(line))
           /\ fetches' = Append(fetches,
                                Fetch(line, RegexSearchHashId(line)[1].group, response))
           /\ resources' = HeldAfterRequest(resources, response, FALSE)
           /\ pullRequestInfo' = response.json
           /\ sectionNotes' = addPullRequestInfoInNotes(response.json, sectionNotes,
                                                       releaseNotesMode, commitTypeIndex)
    /\ commitTypeContainsReleaseNotes' = TRUE
    /\ UNCHANGED <<generateFrame, conversions, pc, commitTypeIndex, markdownReleaseNotes, sections,
                   files, exitCode>>

\* getCommitsNotesFromPullRequests: a turn of the loop for a matching line
\* with a hash id, left by an exception: getPullRequestInfo throws, or
\* json::parse throws on the text it returned
ThrowFromPullRequest ==
    /\ pc = "section"
    /\ releaseNoteSource = "PullRequests"
    /\ Len(records) < MaxRecords
    /\ \E line \in GitLogLines, response \in Responses :
           /\ checkCommitTypeMatch(line, commitTypeIndex) # "NoMatch"
           /\ RegexSearchHashId(line) # <<>>
           /\ GetPullRequestInfoThrows(response) \/ ~response.parses
           /\ commitMessage' = line
           /\ matchResult' = checkCommitTypeMatch(line, commitTypeIndex)
           /\ records' = Append(records, Record(line))
           /\ fetches' = Append(fetches,
                                Fetch(line, RegexSearchHashId(line)[1].group, response))
           /\ resources' = HeldAfterRequest(resources, response,
                                            GetPullRequestInfoThrows(response))
    /\ commitTypeContainsReleaseNotes' = TRUE
    /\ pc' = "thrown"
    /\ UNCHANGED <<generateFrame, conversions, commitTypeIndex, markdownReleaseNotes, sectionNotes,
                   pullRequestInfo, sections, files, exitCode>>

\* fgets returns NULL: the title is dropped when no line was read, the pipe
\* closed, and the notes returned are appended by generateReleaseNotes
EndSection ==
    /\ pc = "section"
    /\ LET returned == IF ~commitTypeContainsReleaseNotes THEN <<>> ELSE sectionNotes
       IN  /\ markdownReleaseNotes' = AppendSection(markdownReleaseNotes, returned)
           /\ sections' = Append(sections, returned)
    /\ commitTypeIndex' = commitTypeIndex + 1
    /\ pc' = "generate"
    /\ resources' = [resources EXCEPT !.pipes = @ - 1]
    /\ UNCHANGED <<generateFrame, conversions, commitMessage, matchResult, sectionNotes,
                   commitTypeContainsReleaseNotes, pullRequestInfo, records, fetches,
                   files, exitCode>>

\* the responses of the markdown API to the request of convertMarkdownToHtml
MarkdownApiResponses ==
    { Response(FALSE, "none", 0, FALSE, ErrorJson),
      Response(TRUE, "CURLE_COULDNT_CONNECT", 0, FALSE, ErrorJson) }
    \cup { Response(TRUE, "CURLE_OK", code, FALSE, ErrorJson) :
               code \in HttpErrorCodes \cup {200} }

\* convertMarkdownToHtml throws
ConvertMarkdownToHtmlThrows(response) ==
    IF response.curl
    THEN IF response.resultCode = "CURLE_OK"
         THEN IF response.httpCode = 200 THEN FALSE
              ELSE IF response.httpCode = 404 THEN TRUE
              ELSE HandleGithubApiErrorCodesThrows(response.httpCode)
         ELSE TRUE
    ELSE TRUE

\* the text convertMarkdownToHtml returns, which is the text of the response:
\* the rendering of the markdown for the status 200, the text of the error
\* for a status the function lets through
htmlText(response, markdownText) ==
    IF response.httpCode = 200
    THEN <<"<p>">> \o markdownText \o <<"</p>">>
    ELSE <<"message">>

\* writeGeneratedNotesInFiles is called: by generateReleaseNotes after the
\* last commit type, by generatePullRequestChangeNote with the note built
WriteGeneratedNotesInFilesCalled ==
    \/ pc = "generate" /\ commitTypeIndex = commitTypesCount
    \/ pc = "noteBuilt"

\* the markdown file is opened, written and closed
WriteMarkdownFile ==
    /\ WriteGeneratedNotesInFilesCalled
    /\ files' = [files EXCEPT !.markdown = [is_open |-> TRUE, text |-> markdownReleaseNotes]]
    /\ pc' = "markdownWritten"
    /\ UNCHANGED <<generateFrame, conversions, resources, commitMessage, commitTypeIndex, matchResult,
                   markdownReleaseNotes, sectionNotes, commitTypeContainsReleaseNotes,
                   pullRequestInfo, records, fetches, sections, exitCode>>

\* the markdown file cannot be opened: config.markdownFileError is thrown
ThrowMarkdownFileError ==
    /\ WriteGeneratedNotesInFilesCalled
    /\ pc' = "thrown"
    /\ UNCHANGED <<generateFrame, conversions, resources, commitMessage, commitTypeIndex, matchResult,
                   markdownReleaseNotes, sectionNotes, commitTypeContainsReleaseNotes,
                   pullRequestInfo, records, fetches, sections, files, exitCode>>

\* the HTML file is opened and the text convertMarkdownToHtml returns written
WriteHtmlFile ==
    /\ pc = "markdownWritten"
    /\ \E response \in MarkdownApiResponses :
           /\ ~ConvertMarkdownToHtmlThrows(response)
           /\ files' = [files EXCEPT !.html =
                            [is_open |-> TRUE,
                             text |-> htmlText(response, markdownReleaseNotes)]]
           /\ conversions' = Append(conversions, response)
           /\ resources' = HeldAfterRequest(resources, response, FALSE)
    /\ pc' = "returned"
    /\ UNCHANGED <<generateFrame, commitMessage, commitTypeIndex, matchResult,
                   markdownReleaseNotes, sectionNotes, commitTypeContainsReleaseNotes,
                   pullRequestInfo, records, fetches, sections, exitCode>>

\* the HTML file cannot be opened: config.htmlFileError is thrown
ThrowHtmlFileError ==
    /\ pc = "markdownWritten"
    /\ pc' = "thrown"
    /\ UNCHANGED <<generateFrame, conversions, resources, commitMessage, commitTypeIndex, matchResult,
                   markdownReleaseNotes, sectionNotes, commitTypeContainsReleaseNotes,
                   pullRequestInfo, records, fetches, sections, files, exitCode>>

\* the HTML file is opened and convertMarkdownToHtml throws: the file stays
\* empty
ThrowFromConvertMarkdownToHtml ==
    /\ pc = "markdownWritten"
    /\ \E response \in MarkdownApiResponses :
           /\ ConvertMarkdownToHtmlThrows(response)
           /\ conversions' = Append(conversions, response)
           /\ resources' = HeldAfterRequest(resources, response, TRUE)
    /\ files' = [files EXCEPT !.html = [is_open |-> TRUE, text |-> <<>>]]
    /\ pc' = "thrown"
    /\ UNCHANGED <<generateFrame, commitMessage, commitTypeIndex, matchResult,
                   markdownReleaseNotes, sectionNotes, commitTypeContainsReleaseNotes,
                   pullRequestInfo, records, fetches, sections, exitCode>>

\* generateReleaseNotes returns and main returns 0
MainReturn ==
    /\ pc = "returned"
    /\ exitCode' = 0
    /\ pc' = "exited"
    /\ UNCHANGED <<generateFrame, conversions, resources, commitMessage, commitTypeIndex, matchResult,
                   markdownReleaseNotes, sectionNotes, commitTypeContainsReleaseNotes,
                   pullRequestInfo, records, fetches, sections, files>>

\* main catches the exception, prints it and returns 1
MainCatch ==
    /\ pc = "thrown"
    /\ exitCode' = 1
    /\ pc' = "exited"
    /\ UNCHANGED <<generateFrame, conversions, resources, commitMessage, commitTypeIndex, matchResult,
                   markdownReleaseNotes, sectionNotes, commitTypeContainsReleaseNotes,
                   pullRequestInfo, records, fetches, sections, files>>

NextGenerate ==
    \/ EnterSection
    \/ ThrowGitLogError
    \/ ReadCommitMessage
    \/ SkipPullRequestCommit
    \/ AddPullRequest
    \/ ThrowFromPullRequest
    \/ EndSection
    \/ WriteMarkdownFile
    \/ ThrowMarkdownFileError
    \/ WriteHtmlFile
    \/ ThrowHtmlFileError
    \/ ThrowFromConvertMarkdownToHtml
    \/ MainReturn
    \/ MainCatch

SpecGenerate == InitGenerate /\ [][NextGenerate]_vars

-----------------------------------------------------------------------------
(* Main.cpp: generatePullRequestChangeNote                                 *)

\* a registry in which a name comes twice, after another name: load stores
\* the names it reads unchecked
RepeatedNameRegistry ==
    << CommitType(<<"f", "x">>, <<"X">>), CommitType(<<"f">>, <<"F">>),
       CommitType(<<"f">>, <<"G">>) >>

\* the responses to the request for the one pull request: those of
\* Responses, and a pull request whose title names no commit type
ChangeNoteResponses ==
    Responses
    \cup { Response(TRUE, "CURLE_OK", 200, TRUE,
                    [title |-> JsonString(<<"x", ":", " ", "f">>), body |-> body]) :
               body \in {JsonNull, JsonString(<<"x">>)} }

\* argv[2], the number of the pull request
PullRequestNumbers == { <<"1">>, <<"2">> }

\* what no action of generatePullRequestChangeNote changes before it calls
\* writeGeneratedNotesInFiles
changeNoteFrame ==
    <<config, classifyVars, formatVars, noteVars, releaseNoteSource, releaseNotesMode,
      sectionNotes, commitTypeContainsReleaseNotes, records, sections, files, conversions,
      pipeVars, loadVars, exitCode>>

\* a slip of the loop: it has no break, and goes on after a type that matches
RECURSIVE ChangeNoteWithoutBreak(_, _)
ChangeNoteWithoutBreak(info, typeIndex) ==
    IF typeIndex >= commitTypesCount THEN <<>>
    ELSE (IF checkCommitTypeMatch(info.title.value, typeIndex) # "NoMatch"
          THEN addPullRequestInfoInNotes(
                   info,
                   <<"\n">> \o config.commitTypes[typeIndex + 1].MarkdownTitle \o <<"\n">>,
                   "Full", typeIndex)
          ELSE <<>>)
         \o ChangeNoteWithoutBreak(info, typeIndex + 1)

\* the loop over the commit types from typeIndex on, for a title that is not
\* null: what it appends to the empty pullRequestChangeNote
RECURSIVE ChangeNoteFrom(_, _)
ChangeNoteFrom(info, typeIndex) ==
    IF typeIndex >= commitTypesCount THEN <<>>
    ELSE IF checkCommitTypeMatch(info.title.value, typeIndex) # "NoMatch"
    THEN addPullRequestInfoInNotes(
             info,
             <<"\n">> \o config.commitTypes[typeIndex + 1].MarkdownTitle \o <<"\n">>,
             "Full", typeIndex)
    ELSE ChangeNoteFrom(info, typeIndex + 1)

\* main has set the urls of the repository from argv[4] and calls
\* generatePullRequestChangeNote
InitChangeNote ==
    /\ pc = "changeNote"
    /\ config \in [commitTypes : {DefaultRegistry, RepeatedNameRegistry},
                    repoIssuesUrl : RepoUrls \ {<<>>},
                    repoCommitsUrl : RepoUrls \ {<<>>},
                    markdownReleaseNotePrefix : ReleaseNotePrefixes,
                    markdownFullModeReleaseNotePrefix : FullModeReleaseNotePrefixes]
    /\ commitMessage = <<>>
    /\ commitTypeIndex = 0
    /\ matchResult = "none"
    /\ subCategoryText = <<>>
    /\ pullRequestBody = <<>>
    /\ result = <<>>
    /\ numberOfNewCharactersAdded = 0
    /\ pending = <<>>
    /\ replaced = <<>>
    /\ NotesIdle
    /\ GenerateIdle

\* getPullRequestInfo returns and json::parse parses what it returned
FetchPullRequest ==
    /\ pc = "changeNote"
    /\ \E pullRequestNumber \in PullRequestNumbers, response \in ChangeNoteResponses :
           /\ ~GetPullRequestInfoThrows(response)
           /\ response.parses
           /\ fetches' = Append(fetches, Fetch(<<>>, pullRequestNumber, response))
           /\ resources' = HeldAfterRequest(resources, response, FALSE)
           /\ pullRequestInfo' = response.json
    /\ pc' = "fetched"
    /\ UNCHANGED <<changeNoteFrame, markdownReleaseNotes, pullRequestChangeNote>>

\* getPullRequestInfo throws, or json::parse throws on what it returned
ThrowFromFetch ==
    /\ pc = "changeNote"
    /\ \E pullRequestNumber \in PullRequestNumbers, response \in ChangeNoteResponses :
           /\ GetPullRequestInfoThrows(response) \/ ~response.parses
           /\ fetches' = Append(fetches, Fetch(<<>>, pullRequestNumber, response))
           /\ resources' = HeldAfterRequest(resources, response,
                                            GetPullRequestInfoThrows(response))
    /\ pc' = "thrown"
    /\ UNCHANGED <<changeNoteFrame, markdownReleaseNotes, pullRequestInfo,
                   pullRequestChangeNote>>

\* the loop over the commit types, and the call of writeGeneratedNotesInFiles
\* with the note as its markdownReleaseNotes
BuildChangeNote ==
    /\ pc = "fetched"
    /\ ~pullRequestInfo.title.is_null
    /\ pullRequestChangeNote' = ChangeNoteFrom(pullRequestInfo, 0)
    /\ markdownReleaseNotes' = pullRequestChangeNote'
    /\ pc' = "noteBuilt"
    /\ UNCHANGED <<changeNoteFrame, pullRequestInfo, fetches, resources>>

\* the title is null: its conversion to the string checkCommitTypeMatch
\* takes throws in the first turn of the loop
ThrowForNullTitle ==
    /\ pc = "fetched"
    /\ pullRequestInfo.title.is_null
    /\ commitTypesCount > 0
    /\ pc' = "thrown"
    /\ UNCHANGED <<changeNoteFrame, markdownReleaseNotes, pullRequestInfo, fetches,
                   resources, pullRequestChangeNote>>

NextChangeNote ==
    \/ FetchPullRequest
    \/ ThrowFromFetch
    \/ BuildChangeNote
    \/ ThrowForNullTitle
    \/ WriteMarkdownFile
    \/ ThrowMarkdownFileError
    \/ WriteHtmlFile
    \/ ThrowHtmlFileError
    \/ ThrowFromConvertMarkdownToHtml
    \/ MainReturn
    \/ MainCatch

SpecChangeNote == InitChangeNote /\ [][NextChangeNote]_vars

-----------------------------------------------------------------------------
(* Main.cpp: getCommitsNotesFromCommitMessages, the loop over the pipe     *)

\* char buffer[150]
BufferSize == 150

\* a subject that starts with head and goes on with n times 'x'
Subject(head, n) == head \o [j \in 1..n |-> "x"]

\* the subjects git log prints: short ones, and ones of 148, 149, 150 and 299
\* characters
Subjects ==
    { Subject(<<"x">>, 0),
      Subject(<<"f", ":", " ">>, 1),
      Subject(<<"f", ":", " ">>, BufferSize - 5),
      Subject(<<"f", ":", " ">>, BufferSize - 4),
      Subject(<<"f", ":", " ">>, BufferSize - 3),
      Subject(<<"f", ":", " ">>, 2 * BufferSize - 4) }

RECURSIVE PipeOutput(_)
\* what git log writes into the pipe: every subject with its line feed
PipeOutput(subjects) ==
    IF subjects = <<>> THEN <<>>
    ELSE Head(subjects) \o <<"\n">> \o PipeOutput(Tail(subjects))

\* the number of characters fgets(buffer, sizeof(buffer), pipe) stores: it
\* reads up to the first line feed, which it stores, and at most
\* sizeof(buffer) - 1 characters
FgetsLength(stream) ==
    LET most == Min(BufferSize - 1, Len(stream))
        lineFeeds == {j \in 1..most : stream[j] = "\n"}
    IN  IF lineFeeds = {} THEN most
        ELSE CHOOSE j \in lineFeeds : \A k \in lineFeeds : j <= k

\* what no action of the loop changes
readFrame ==
    <<config, commitTypeIndex, subCategoryText, formatVars, noteVars, releaseNoteSource,
      releaseNotesMode, markdownReleaseNotes, pullRequestInfo, fetches, files, conversions,
      loadVars, changeNoteVars, exitCode>>

\* getCommitsNotesFromCommitMessages is called for the first commit type in
\* a repository whose git log prints some subjects
InitReadLines ==
    /\ pc = "popen"
    /\ config \in Configs
    /\ config.commitTypes = DefaultRegistry
    /\ config.repoIssuesUrl # <<>>
    /\ config.repoCommitsUrl # <<>>
    /\ commitTypeIndex = 0
    /\ commitMessage = <<>>
    /\ matchResult = "none"
    /\ subCategoryText = <<>>
    /\ pullRequestBody = <<>>
    /\ result = <<>>
    /\ numberOfNewCharactersAdded = 0
    /\ pending = <<>>
    /\ replaced = <<>>
    /\ NotesIdle
    /\ releaseNoteSource = "CommitMessages"
    /\ releaseNotesMode = "Short"
    /\ markdownReleaseNotes = <<>>
    /\ sectionNotes = <<>>
    /\ commitTypeContainsReleaseNotes = FALSE
    /\ pullRequestInfo = ErrorJson
    /\ records = <<>>
    /\ fetches = <<>>
    /\ sections = <<>>
    /\ files = [markdown |-> NoFile, html |-> NoFile]
    /\ conversions = <<>>
    /\ resources = NoResources
    /\ gitLog \in SeqsUpTo(Subjects, MaxSubjects)
    /\ pipe = <<>>
    /\ externalConfigData = JsonNull
    /\ pullRequestChangeNote = <<>>
    /\ exitCode = -1

\* popen succeeds: git log writes its lines into the pipe, and the title of
\* the section is added
OpenPipe ==
    /\ pc = "popen"
    /\ pipe' = PipeOutput(gitLog)
    /\ resources' = [resources EXCEPT !.pipes = @ + 1]
    /\ sectionNotes' = <<"\n">> \o config.commitTypes[commitTypeIndex + 1].MarkdownTitle
                       \o <<"\n">>
    /\ commitTypeContainsReleaseNotes' = FALSE
    /\ pc' = "reading"
    /\ UNCHANGED <<readFrame, commitMessage, matchResult, records, sections, gitLog>>

\* popen returns NULL: config.gitLogError is thrown
ThrowFromPopen ==
    /\ pc = "popen"
    /\ pc' = "thrown"
    /\ UNCHANGED <<readFrame, commitMessage, matchResult, sectionNotes,
                   commitTypeContainsReleaseNotes, records, sections, resources, pipeVars>>

\* one turn of the while loop: fgets fills the buffer, the buffer is the
\* commit message that is classified and, when it matches, converted
FgetsCommitMessage ==
    /\ pc = "reading"
    /\ pipe # <<>>
    /\ LET buffer == SubSeq(pipe, 1, FgetsLength(pipe))
       IN  /\ pipe' = SubSeq(pipe, Len(buffer) + 1, Len(pipe))
           /\ commitMessage' = buffer
           /\ matchResult' = checkCommitTypeMatch(buffer, commitTypeIndex)
           /\ sectionNotes' =
                  IF matchResult' # "NoMatch"
                  THEN sectionNotes \o convertConventionalCommitTitleToReleaseNoteTitle(
                                          buffer, matchResult', config.markdownReleaseNotePrefix)
                  ELSE sectionNotes
           /\ records' = Append(records, Record(buffer))
    /\ commitTypeContainsReleaseNotes' = TRUE
    /\ UNCHANGED <<readFrame, pc, sections, resources, gitLog>>

\* fgets returns NULL at the end of the pipe: the title is dropped when no
\* line was read, the pipe closed and the notes returned
ReturnSection ==
    /\ pc = "reading"
    /\ pipe = <<>>
    /\ sections' = Append(sections,
                          IF ~commitTypeContainsReleaseNotes THEN <<>> ELSE sectionNotes)
    /\ resources' = [resources EXCEPT !.pipes = @ - 1]
    /\ pc' = "sectionReturned"
    /\ UNCHANGED <<readFrame, commitMessage, matchResult, sectionNotes,
                   commitTypeContainsReleaseNotes, records, pipeVars>>

NextReadLines ==
    \/ OpenPipe
    \/ ThrowFromPopen
    \/ FgetsCommitMessage
    \/ ReturnSection

SpecReadLines == InitReadLines /\ [][NextReadLines]_vars

-----------------------------------------------------------------------------
(* The classifier claims                                                   *)

\* the conventional name the message is matched against
CorrectCommitType == config.commitTypes[commitTypeIndex + 1].ConventionalName

Has(s, ch) == \E i \in DOMAIN s : s[i] = ch

\* 1-based index of the first ch of s, which has one
FirstIndex(s, ch) ==
    CHOOSE i \in DOMAIN s : s[i] = ch /\ \A j \in 1..(i - 1) : s[j] # ch

\* the part of s before its first ch, all of s when it has none
BeforeFirst(s, ch) == IF Has(s, ch) THEN SubSeq(s, 1, FirstIndex(s, ch) - 1) ELSE s

\* the result the classification rule gives for the message and the name
RuleResult(s, name) ==
    IF BeforeFirst(s, ":") = name THEN "MatchWithoutSubCategory"
    ELSE IF BeforeFirst(s, "(") = name THEN "MatchWithSubCategory"
    ELSE "NoMatch"

Classified == pc \in {"matched", "noted", "skipped"}

\* C1 as stated: the result follows the rule (before ':' first, then before
\* '('), a title name + ": " is matched without sub category for every name,
\* and a title with neither ':' nor '(' matches only when it is the name.
C1_AsStated ==
    Classified =>
        /\ matchResult = RuleResult(commitMessage, CorrectCommitType)
        /\ (commitMessage = CorrectCommitType \o <<":", " ">>
                => matchResult = "MatchWithoutSubCategory")
        /\ (~Has(commitMessage, ":") /\ ~Has(commitMessage, "(")
                => (matchResult # "NoMatch" <=> commitMessage = CorrectCommitType))

\* C1 amended: the same, the title name + ": " being matched without sub
\* category when the name itself holds no ':'.
C1_Classification ==
    Classified =>
        /\ matchResult = RuleResult(commitMessage, CorrectCommitType)
        /\ (commitMessage = CorrectCommitType \o <<":", " ">>
            /\ ~Has(CorrectCommitType, ":")
                => matchResult = "MatchWithoutSubCategory")
        /\ (~Has(commitMessage, ":") /\ ~Has(commitMessage, "(")
                => (matchResult # "NoMatch" <=> commitMessage = CorrectCommitType))

\* C1 witness: a title name + ": " has been classified without sub category
C1_Witness ==
    /\ Classified
    /\ commitMessage = CorrectCommitType \o <<":", " ">>
    /\ CorrectCommitType # <<>>
    /\ matchResult = "MatchWithoutSubCategory"

\* the title has a ':' and no '(' before it
ColonBeforeParen(s) ==
    /\ Has(s, ":")
    /\ Has(s, "(") => FirstIndex(s, ":") < FirstIndex(s, "(")

\* C2 as stated: a title with a ':' before any '(' is never classified with a
\* sub category, whatever the commit type.
C2_AsStated ==
    Classified /\ ColonBeforeParen(commitMessage)
        => matchResult # "MatchWithSubCategory"

\* C2 amended: a title with a ':' before any '(' is never classified with a
\* sub category under a commit type whose conventional name holds no ':'.
C2_ColonFirst ==
    Classified /\ ColonBeforeParen(commitMessage) /\ ~Has(CorrectCommitType, ":")
        => matchResult # "MatchWithSubCategory"

\* C2 witness: a title "name:...(..." has been classified, without sub category
C2_Witness ==
    /\ Classified
    /\ ColonBeforeParen(commitMessage)
    /\ Has(commitMessage, "(")
    /\ ~Has(CorrectCommitType, ":")
    /\ matchResult = "MatchWithoutSubCategory"

\* the title has a '(' and a ')' somewhere after its first '('
HasMatchingParen(s) ==
    /\ Has(s, "(")
    /\ \E j \in DOMAIN s : j > FirstIndex(s, "(") /\ s[j] = ")"

\* the text between the first '(' of s and the first ')' after it
BetweenParens(s) ==
    LET open == FirstIndex(s, "(")
        close == CHOOSE j \in DOMAIN s :
                     /\ j > open
                     /\ s[j] = ")"
                     /\ \A k \in (open + 1)..(j - 1) : s[k] # ")"
    IN  SubSeq(s, open + 1, close - 1)

\* C3: a title whose part before the first '(' is the name and which has a
\* matching ')' is classified with a sub category, and the sub category text
\* of its note is the text between the first '(' and the first ')' after it.
C3_SubCategoryText ==
    /\ Classified
    /\ BeforeFirst(commitMessage, "(") = CorrectCommitType
    /\ HasMatchingParen(commitMessage)
    => /\ matchResult = "MatchWithSubCategory"
       /\ pc = "noted" =>
              subCategoryText = <<" ", "(">> \o BetweenParens(commitMessage)
                                \o <<" ", "R", "e", "l", "a", "t", "e", "d", ")", " ">>

-----------------------------------------------------------------------------
(* The release note title claims                                           *)

\* the description of a title with a ':': what follows its first ':', less
\* the one space that may follow the ':'
DescriptionOf(s) ==
    LET colon == FirstIndex(s, ":")
    IN  IF colon < Len(s) /\ s[colon + 1] = " "
        THEN SubSeq(s, colon + 2, Len(s))
        ELSE SubSeq(s, colon + 1, Len(s))

\* s with "F" for a first "f" and "X" for a first "x"
UpperFirst(s) ==
    IF s = <<>> THEN <<>>
    ELSE <<CASE s[1] = "f" -> "F" [] s[1] = "x" -> "X" [] OTHER -> s[1]>> \o Tail(s)

\* the title has been converted and the classification rule gives it no
\* sub category
ConvertedWithoutSubCategory ==
    /\ pc = "converted"
    /\ RuleResult(commitMessage, CorrectCommitType) = "MatchWithoutSubCategory"

C14_TitleWithSubCategory ==
    /\ pc = "lineBuilt"
    /\ matchResult = "MatchWithSubCategory"
    /\ HasMatchingParen(commitMessage)
    /\ Has(commitMessage, ":")
    => releaseNote = config.markdownReleaseNotePrefix
                     \o <<"(">> \o UpperFirst(BetweenParens(commitMessage))
                     \o <<" ", "R", "e", "l", "a", "t", "e", "d", ")", " ">>
                     \o UpperFirst(DescriptionOf(commitMessage)) \o <<"\n">>

-----------------------------------------------------------------------------
(* The hash id claim                                                       *)

\* the body has a '#' directly followed by a digit
HasHashId(s) == \E i \in 1..(Len(s) - 1) : s[i] = "#" /\ s[i + 1] \in Digits

RECURSIVE RewriteHashIds(_)
\* the rewrite as one scan from the left: a '#' with the digits that follow it
\* becomes its link, every other character is copied
RewriteHashIds(s) ==
    IF s = <<>> THEN <<>>
    ELSE IF Head(s) = "#" /\ Len(s) >= 2 /\ s[2] \in Digits
    THEN LET n == Max({k \in 1..(Len(s) - 1) : \A i \in 2..(k + 1) : s[i] \in Digits})
             id == SubSeq(s, 2, n + 1)
         IN  <<"[", "#">> \o id \o <<"]", "(">> \o config.repoIssuesUrl \o id \o <<")">>
             \o RewriteHashIds(SubSeq(s, n + 2, Len(s)))
    ELSE <<Head(s)>> \o RewriteHashIds(Tail(s))

\* C4: replaceHashIdsWithLinks returns the body with every '#' followed by
\* digits replaced by "[#id](repoIssuesUrl id)", all other characters kept in
\* their order, however many ids there are; a body without one is returned
\* unchanged.
C4_HashIdsLinked ==
    pc = "hashIdsDone" =>
        /\ result = RewriteHashIds(pullRequestBody)
        /\ ~HasHashId(pullRequestBody) => result = pullRequestBody

\* C4 witness: two hash ids have been replaced, the second after the first
\* made the result longer
C4_Witness ==
    /\ pc = "hashIdsDone"
    /\ Len(replaced) >= 2
    /\ config.repoIssuesUrl # <<>>
    /\ Len(result) > Len(pullRequestBody)

\* the first call of the rewriter, once it has been called again
FirstApplication == applications[1]

\* the second call of the rewriter has returned
AppliedTwice == pc = "hashIdsDone" /\ applications # <<>>

\* C11: the hash id rewrite is not idempotent: the second call rewrites the
\* string the first returned as it rewrites any body, the hash ids that are
\* now the text of a link included, so that for a body with a hash id the
\* second result differs from, and is longer than, the first.
C11_HashIdsNotIdempotent ==
    AppliedTwice =>
        /\ FirstApplication.result = RewriteHashIds(FirstApplication.body)
        /\ result = RewriteHashIds(FirstApplication.result)
        /\ HasHashId(FirstApplication.body) =>
               /\ result # FirstApplication.result
               /\ Len(result) > Len(FirstApplication.result)
               /\ Len(replaced) >= 1

\* C11 witness: the second call has rewritten the hash id in the text of the
\* link the first call made of a bare hash id: a link inside a link
C11_Witness ==
    /\ AppliedTwice
    /\ FirstApplication.body = <<"#", "1">>
    /\ FirstApplication.result = <<"[", "#", "1", "]", "(">> \o config.repoIssuesUrl
                                  \o <<"1", ")">>
    /\ result = <<"[", "[", "#", "1", "]", "(">> \o config.repoIssuesUrl
                 \o <<"1", ")", "]", "(">> \o config.repoIssuesUrl \o <<"1", ")">>

-----------------------------------------------------------------------------
(* The commit SHA claims                                                   *)

ReturnedCommitShas == pc = "commitShasDone"

\* positions at which a hex run of 6 to 40 characters starts that has a space
\* or '(' directly on its left and a space or ')' directly on its right
DelimitedShaRuns(s) ==
    {i \in 1..(Len(s) - 1) :
        /\ s[i] \in LeftDelimiters
        /\ LET n == RunLength(s, i, HexChars)
           IN  /\ n >= MinShaLength
               /\ n <= MaxShaLength
               /\ i + n < Len(s)
               /\ s[i + n + 1] \in RightDelimiters}

\* positions at which a hex run of 6 to 40 characters starts that is at the
\* start or the end of the string, or directly before a newline or a comma,
\* the other side being the start, the end, a space or a parenthesis
EdgeShaRuns(s) ==
    {i \in 0..(Len(s) - 1) :
        /\ s[i + 1] \in HexChars
        /\ i = 0 \/ s[i] \in LeftDelimiters
        /\ LET n == RunLength(s, i, HexChars)
           IN  /\ n >= MinShaLength
               /\ n <= MaxShaLength
               /\ i + n = Len(s) \/ s[i + n + 1] \in RightDelimiters \cup {"\n", ","}
               /\ \/ i = 0
                  \/ i + n = Len(s)
                  \/ s[i + n + 1] \in {"\n", ","}}

\* the loop has replaced the hex run that starts at position i
ShaLinkedAt(i) == \E k \in DOMAIN replaced : replaced[k].position + 1 = i

RECURSIVE RebuildShas(_, _, _, _)
\* the body from position from on, each match of ms replaced by the link of
\* its SHA, between the two characters around the SHA when keep holds and
\* between two spaces when it does not
RebuildShas(s, ms, from, keep) ==
    IF ms = <<>> THEN SubSeq(s, from + 1, Len(s))
    ELSE LET m == Head(ms)
             last == m.position + m.length
             link == <<"[">> \o SubSeq(m.group, 1, Min(6, Len(m.group))) \o <<"]", "(">>
                     \o config.repoCommitsUrl \o m.group \o <<")">>
         IN  SubSeq(s, from + 1, m.position)
             \o (IF keep THEN <<s[m.position + 1]>> ELSE <<" ">>)
             \o link
             \o (IF keep THEN <<s[last]>> ELSE <<" ">>)
             \o RebuildShas(s, Tail(ms), last, keep)

\* C5: every hex run of 6 to 40 characters with a space or '(' on its left and
\* a space or ')' on its right, two runs a single space apart included, is
\* replaced by " [first 6](repoCommitsUrl run) ", and the text outside the
\* replaced spans is unchanged.
C5_EveryDelimitedShaLinked ==
    ReturnedCommitShas =>
        /\ \A i \in DelimitedShaRuns(pullRequestBody) : ShaLinkedAt(i)
        /\ result = RebuildShas(pullRequestBody, replaced, 0, FALSE)

\* C6: the characters directly before and after a rewritten hex run are kept:
\* only the run is replaced by its link.
C6_DelimitersKept ==
    ReturnedCommitShas => result = RebuildShas(pullRequestBody, replaced, 0, TRUE)

\* C7: a hex run of 6 to 40 characters at the very start or end of the string,
\* or directly before a newline or a comma, is replaced by its link as well.
C7_EdgeShasLinked ==
    ReturnedCommitShas => \A i \in EdgeShaRuns(pullRequestBody) : ShaLinkedAt(i)

\* positions at which a maximal hex run starts
HexRunStarts(s) ==
    {i \in 0..(Len(s) - 1) : s[i + 1] \in HexChars /\ (i = 0 \/ s[i] \notin HexChars)}

\* the maximal hex run at i is shorter than 6 or longer than 40 characters
OutOfRange(s, i) ==
    LET n == RunLength(s, i, HexChars) IN n < MinShaLength \/ n > MaxShaLength

\* the SHA of the match m lies, in part or whole, in the hex run at i
InRun(s, m, i) ==
    /\ m.position + 1 < i + RunLength(s, i, HexChars)
    /\ i < m.position + 1 + Len(m.group)

\* C8: no part of a hex run shorter than 6 or longer than 40 characters is
\* linked, and a body all of whose hex runs are such is returned unchanged.
C8_OutOfRangeShasKept ==
    ReturnedCommitShas =>
        /\ \A i \in HexRunStarts(pullRequestBody) :
               OutOfRange(pullRequestBody, i) =>
                   \A k \in DOMAIN replaced : ~InRun(pullRequestBody, replaced[k], i)
        /\ (\A i \in HexRunStarts(pullRequestBody) : OutOfRange(pullRequestBody, i))
               => result = pullRequestBody

\* C8 witness: a delimited run of 41 characters has been left as it was while
\* a delimited run of 6 characters in the same body has been linked
C8_Witness ==
    /\ ReturnedCommitShas
    /\ pullRequestBody = <<" ">> \o HexRun(MinShaLength) \o <<" ", " ">>
                         \o HexRun(MaxShaLength + 1) \o <<" ">>
    /\ Len(replaced) = 1
    /\ result = CommitShaLink(HexRun(MinShaLength)) \o <<" ">>
                \o HexRun(MaxShaLength + 1) \o <<" ">>

\* the spans, as <<position of '[', position of ')'>>, of the markdown links
\* of the body
LinkSpans(s) ==
    {<<i, j>> \in (0..(Len(s) - 1)) \X (0..(Len(s) - 1)) :
        /\ s[i + 1] = "["
        /\ j > i
        /\ s[j + 1] = ")"
        /\ \A k \in (i + 1)..(j - 1) : s[k + 1] # ")"}

\* positions at which a plain SHA starts: a hex run of 6 to 40 characters
\* between the start, a space or '(' and the end, a space, ')', a newline or
\* a comma
PlainShaRuns(s) == DelimitedShaRuns(s) \cup EdgeShaRuns(s)

\* C9: a SHA that is already the text or the target of a markdown link is not
\* rewritten, and the plain SHAs of the same body are still linked.
C9_LinkedShasKept ==
    ReturnedCommitShas /\ LinkSpans(pullRequestBody) # {} =>
        /\ \A sp \in LinkSpans(pullRequestBody) : \A k \in DOMAIN replaced :
               \/ replaced[k].position + replaced[k].length <= sp[1]
               \/ replaced[k].position > sp[2]
        /\ \A i \in PlainShaRuns(pullRequestBody) : ShaLinkedAt(i)

-----------------------------------------------------------------------------
(* The indenting claim                                                     *)

\* the i-th character of s is the first of a line: the first character of s
\* or one that directly follows a line feed
StartsLine(s, i) == i = 1 \/ s[i - 1] = "\n"

\* the number of line starts among the first n characters of s
LineStarts(s, n) == Cardinality({j \in 1..n : StartsLine(s, j)})

\* C12: indentAllLinesInString puts four spaces before the first character
\* and before every character that directly follows a line feed, and changes
\* nothing else: every other character is kept in its order, the empty
\* string is returned empty and nothing is added after a trailing line feed.
C12_EveryLineIndented ==
    pc = "indentDone" =>
        /\ Len(result) = Len(pullRequestBody)
                         + 4 * LineStarts(pullRequestBody, Len(pullRequestBody))
        /\ \A i \in DOMAIN pullRequestBody :
               LET at == i + 4 * LineStarts(pullRequestBody, i)
               IN  /\ result[at] = pullRequestBody[i]
                   /\ StartsLine(pullRequestBody, i) =>
                          \A k \in (at - 4)..(at - 1) : result[k] = " "
        /\ pullRequestBody = <<>> => result = <<>>
        /\ (pullRequestBody # <<>> /\ pullRequestBody[Len(pullRequestBody)] = "\n")
               => result[Len(result)] = "\n"

\* C12 witness: a string of two lines, the second already indented by a
\* space and ended by a line feed, has been indented
C12_Witness ==
    /\ pc = "indentDone"
    /\ pullRequestBody = <<"x", "\n", " ", "x", "\n">>
    /\ result = Indentation \o <<"x", "\n">> \o Indentation \o <<" ", "x", "\n">>

-----------------------------------------------------------------------------
(* The line ending claim                                                   *)

\* the number of carriage returns among the first n characters of s
CarriageReturns(s, n) == Cardinality({j \in 1..n : s[j] = "\r"})

\* C10: removeExtraNewLines puts two spaces for every carriage return and
\* changes nothing else: no carriage return is left, every other character is
\* kept in its order, and the result is longer by one character for each
\* carriage return.
C10_CarriageReturnsReplaced ==
    pc = "newLinesDone" =>
        /\ \A i \in DOMAIN result : result[i] # "\r"
        /\ Len(result) = Len(pullRequestBody)
                         + CarriageReturns(pullRequestBody, Len(pullRequestBody))
        /\ \A i \in DOMAIN pullRequestBody :
               LET at == i + CarriageReturns(pullRequestBody, i - 1)
               IN  IF pullRequestBody[i] = "\r"
                   THEN result[at] = " " /\ result[at + 1] = " "
                   ELSE result[at] = pullRequestBody[i]

\* C10 witness: a body with two carriage returns, a line feed after one of
\* them, has been rewritten
C10_Witness ==
    /\ pc = "newLinesDone"
    /\ CarriageReturns(pullRequestBody, Len(pullRequestBody)) >= 2
    /\ \E i \in 1..(Len(pullRequestBody) - 1) :
           pullRequestBody[i] = "\r" /\ pullRequestBody[i + 1] = "\n"
    /\ Len(result) = Len(pullRequestBody) + 2

-----------------------------------------------------------------------------
(* The pull request notes claims                                           *)

\* the pull request has a body that makes a block: the mode is Full and the
\* body is neither null nor empty
HasBodyBlock(info, mode) ==
    mode = "Full" /\ ~info.body.is_null /\ info.body.value # <<>>

\* the pull request without its body
WithoutBody(info) == [info EXCEPT !.body = JsonNull]

\* a step in which addPullRequestInfoInNotes has added a pull request
PullRequestAdded ==
    pc = "section" /\ pc' = "section" /\ Len(fetches') = Len(fetches) + 1

\* C15: addPullRequestInfoInNotes adds a body block exactly when the mode is
\* Full and the body is neither null nor empty: in the short mode, and in the
\* full mode for a null or an empty body, the notes get what a pull request
\* without body gives them, no text and no line more; otherwise they get more.
C15_BodyBlockOnlyForBody ==
    [][PullRequestAdded =>
          LET bare == addPullRequestInfoInNotes(WithoutBody(pullRequestInfo'), sectionNotes,
                                                releaseNotesMode, commitTypeIndex)
          IN  IF HasBodyBlock(pullRequestInfo', releaseNotesMode)
              THEN Len(sectionNotes') > Len(bare)
              ELSE sectionNotes' = bare]_vars

-----------------------------------------------------------------------------
(* The section claims                                                      *)

\* the record produces an entry: it matches its commit type and, when the
\* source is pull requests, holds a hash id
ProducesEntry(record) ==
    /\ checkCommitTypeMatch(record.commitMessage, record.commitTypeIndex) # "NoMatch"
    /\ releaseNoteSource = "PullRequests" => RegexSearchHashId(record.commitMessage) # <<>>

\* the records read for the commit type of index typeIndex
RecordsOf(typeIndex) ==
    {j \in DOMAIN records : records[j].commitTypeIndex = typeIndex}

\* C16: for either source a section whose records produce no entry (there is
\* no record, or none matches the commit type, or for pull requests none that
\* matches holds a hash id) is returned as the empty string: its title is not
\* in the output.
C16_SectionWithoutEntryIsEmpty ==
    \A k \in DOMAIN sections :
        (\A j \in RecordsOf(k - 1) : ~ProducesEntry(records[j])) => sections[k] = <<>>

\* the positions of line where a hash id starts: a '#' with a digit after it
HashIdStarts(line) ==
    {p \in 1..(Len(line) - 1) : line[p] = "#" /\ line[p + 1] \in Digits}

\* the number of the first hash id of a line that holds one: the digits that
\* follow its first '#' of a hash id
FirstHashIdNumber(line) ==
    LET p == CHOOSE q \in HashIdStarts(line) : \A r \in HashIdStarts(line) : q <= r
        n == Max({m \in 1..(Len(line) - p) : \A q \in (p + 1)..(p + m) : line[q] \in Digits})
    IN  SubSeq(line, p + 1, p + n)

\* the record matches its commit type
Matches(record) ==
    checkCommitTypeMatch(record.commitMessage, record.commitTypeIndex) # "NoMatch"

\* a step in which a record is read
RecordRead == Len(records') = Len(records) + 1

\* C17: when the source is pull requests, a matching record without hash id
\* is skipped without error, no pull request being fetched for it and nothing
\* added to the notes, and for a matching record with hash ids one pull
\* request is fetched, the one numbered by the first hash id of the record.
C17_FirstHashIdFetched ==
    [][releaseNoteSource = "PullRequests" /\ RecordRead /\ Matches(records'[Len(records')]) =>
          LET line == records'[Len(records')].commitMessage
          IN  IF HashIdStarts(line) = {}
              THEN /\ fetches' = fetches
                   /\ sectionNotes' = sectionNotes
                   /\ pc' = pc
              ELSE /\ Len(fetches') = Len(fetches) + 1
                   /\ SubSeq(fetches', 1, Len(fetches)) = fetches
                   /\ fetches'[Len(fetches')].commitMessage = line
                   /\ fetches'[Len(fetches')].commitPullRequestNumber
                          = FirstHashIdNumber(line)]_vars

\* C17 witness: a matching record without hash id has been skipped and a pull
\* request fetched for a record with two hash ids, and the run goes on
C17_Witness ==
    /\ releaseNoteSource = "PullRequests"
    /\ pc = "section"
    /\ \E j \in DOMAIN records :
           Matches(records[j]) /\ HashIdStarts(records[j].commitMessage) = {}
    /\ \E j \in DOMAIN fetches :
           /\ Cardinality(HashIdStarts(fetches[j].commitMessage)) >= 2
           /\ fetches[j].commitPullRequestNumber = <<"2">>

-----------------------------------------------------------------------------
(* The document claims                                                     *)

RECURSIVE Concatenation(_)
\* the strings of a sequence, one after the other
Concatenation(strings) ==
    IF strings = <<>> THEN <<>>
    ELSE Head(strings) \o Concatenation(Tail(strings))

\* the section starts with one line feed, the empty line that separates it
\* from what is before, and the line of the title of the commit type
LedByTitleOf(section, commitType) ==
    LET lead == <<"\n">> \o commitType.MarkdownTitle \o <<"\n">>
    IN  /\ Len(section) >= Len(lead)
        /\ SubSeq(section, 1, Len(lead)) = lead
        /\ section[2] # "\n"

\* C18: generateReleaseNotes assembles one section for every commit type, in
\* the order of the registry: the k-th section is that of the k-th commit
\* type and the records are read type after type; the document is the
\* sections one after the other, each section that is not empty led by one
\* line feed and its title, an empty one giving the document no character;
\* and that document is what is written.
C18_OneSectionPerTypeInOrder ==
    /\ Len(sections) <= commitTypesCount
    /\ pc = "generate" => Len(sections) = commitTypeIndex
    /\ pc = "section" => Len(sections) = commitTypeIndex
    /\ pc \in {"markdownWritten", "returned"} => Len(sections) = commitTypesCount
    /\ \A j \in DOMAIN records : \A k \in DOMAIN records :
           j <= k => records[j].commitTypeIndex <= records[k].commitTypeIndex
    /\ \A k \in DOMAIN sections :
           sections[k] # <<>> => LedByTitleOf(sections[k], config.commitTypes[k])
    /\ markdownReleaseNotes = Concatenation(sections)
    /\ markdownReleaseNotes
           = Concatenation(SelectSeq(sections, LAMBDA section : section # <<>>))
    /\ files.markdown.is_open => files.markdown.text = Concatenation(sections)

\* C18 witness: generateReleaseNotes has returned with a document of two
\* different sections that are not empty
C18_Witness ==
    /\ pc = "returned"
    /\ Len(sections) = 2
    /\ sections[1] # <<>>
    /\ sections[2] # <<>>
    /\ Len(sections[1]) > Len(sections[2])
    /\ files.markdown.text = sections[1] \o sections[2]

\* every commit type has given its section and every section is empty
EverySectionEmpty ==
    /\ Len(sections) = commitTypesCount
    /\ \A k \in DOMAIN sections : sections[k] = <<>>

\* C19: when the section of every commit type is empty generateReleaseNotes
\* ends with the error of the empty result, which main reports: it does not
\* return, no markdown file and no HTML file is made, and main does not
\* return 0.
C19_EmptyResultIsAnError ==
    EverySectionEmpty =>
        /\ pc \notin {"markdownWritten", "returned"}
        /\ ~files.markdown.is_open
        /\ ~files.html.is_open
        /\ exitCode # 0

-----------------------------------------------------------------------------
(* The pull request resolution claim                                       *)

\* the resolution of the pull request failed: no handle, a failed transfer
\* or a status that is not 200
ResolutionFailed(response) ==
    \/ ~response.curl
    \/ response.resultCode # "CURLE_OK"
    \/ response.httpCode # 200

\* C20: a failed resolution of a pull request is fatal for the run:
\* getPullRequestInfo throws, the record of the pull request is the last one
\* read and its commit type the last one worked on, no section is ended and
\* no file written after it, and main returns 1.
C20_FailedResolutionIsFatal ==
    \A j \in DOMAIN fetches :
        ResolutionFailed(fetches[j].response) =>
            /\ fetches[j].thrown
            /\ j = Len(fetches)
            /\ records[Len(records)] = Record(fetches[j].commitMessage)
            /\ Len(sections) = fetches[j].commitTypeIndex
            /\ pc \in {"thrown", "exited"}
            /\ ~files.markdown.is_open
            /\ pc = "exited" => exitCode = 1

-----------------------------------------------------------------------------
(* The output claims                                                       *)

\* the file has been created or its content replaced
Touched(file) == file.is_open

\* C21: a run has no partial output: when main has returned, either the
\* markdown file and the HTML file are both written, or neither has been
\* created or changed; a run that ends with an error, as for a failed
\* conversion or an HTML file that cannot be opened, has written no markdown
\* file.
C21_NoPartialOutput ==
    pc = "exited" =>
        /\ Touched(files.markdown) <=> Touched(files.html)
        /\ exitCode = 0 =>
               /\ files.markdown.text = markdownReleaseNotes
               /\ files.html.text # <<>>
        /\ exitCode # 0 => ~Touched(files.markdown)

\* C22: convertMarkdownToHtml returns a text only for the status 200: for
\* every other outcome it throws, generateReleaseNotes does not return and
\* main returns 1, and the body of an error response is not written as the
\* HTML release notes.
C22_OnlyConvertedTextReturned ==
    \A j \in DOMAIN conversions :
        ResolutionFailed(conversions[j]) =>
            /\ pc \in {"thrown", "exited"}
            /\ files.html.text = <<>>
            /\ pc = "exited" => exitCode = 1

-----------------------------------------------------------------------------
(* The order of the pull request resolutions                               *)

\* the matching records with a hash id, in the order they were read
FetchedRecords ==
    SelectSeq(records, LAMBDA record : Matches(record) /\ HashIdStarts(record.commitMessage) # {})

\* the fetch has given an entry: nothing was thrown and the response parsed
GaveEntry(fetch) == ~fetch.thrown /\ fetch.response.parses

\* the entry of a fetch: what addPullRequestInfoInNotes adds to empty notes
EntryOf(fetch) ==
    addPullRequestInfoInNotes(fetch.response.json, <<>>, releaseNotesMode,
                              fetch.commitTypeIndex)

RECURSIVE EntriesOf(_)
\* the entries of the fetches of a sequence, one after the other
EntriesOf(fs) ==
    IF fs = <<>> THEN <<>>
    ELSE (IF GaveEntry(Head(fs)) THEN EntryOf(Head(fs)) ELSE <<>>) \o EntriesOf(Tail(fs))

\* the fetches made for the commit type of index typeIndex, in their order
FetchesOf(typeIndex) ==
    SelectSeq(fetches, LAMBDA fetch : fetch.commitTypeIndex = typeIndex)

\* the section of the commit type of index typeIndex with its entries in the
\* order of the fetches
SectionInOrder(typeIndex) ==
    <<"\n">> \o config.commitTypes[typeIndex + 1].MarkdownTitle \o <<"\n">>
    \o EntriesOf(FetchesOf(typeIndex))

\* C23: when the source is pull requests the pull requests are resolved one
\* by one in the order the records are read, commit type after commit type:
\* the fetches are, in order, one for each matching record with a hash id; a
\* fetch that fails with an error is the last one, none is made again; and
\* the entries of a section are in the order of the records they come from.
C23_FetchesInRecordOrder ==
    releaseNoteSource = "PullRequests" =>
        /\ LET fetched == FetchedRecords
           IN  /\ Len(fetches) = Len(fetched)
               /\ \A j \in DOMAIN fetches :
                      /\ fetches[j].commitMessage = fetched[j].commitMessage
                      /\ fetches[j].commitTypeIndex = fetched[j].commitTypeIndex
        /\ \A j \in DOMAIN fetches :
               /\ ~GaveEntry(fetches[j]) =>
                      /\ j = Len(fetches)
                      /\ records[Len(records)] = Record(fetches[j].commitMessage)
                      /\ pc \in {"thrown", "exited"}
        /\ pc = "section" => sectionNotes = SectionInOrder(commitTypeIndex)
        /\ \A k \in DOMAIN sections :
               sections[k] # <<>> => sections[k] = SectionInOrder(k - 1)

\* C23 witness: a section holds the entries of two pull requests that differ,
\* fetched for two records
C23_Witness ==
    /\ releaseNoteSource = "PullRequests"
    /\ pc = "section"
    /\ Len(fetches) = 2
    /\ fetches[1].commitTypeIndex = fetches[2].commitTypeIndex
    /\ GaveEntry(fetches[1])
    /\ GaveEntry(fetches[2])
    /\ EntryOf(fetches[1]) # EntryOf(fetches[2])
    /\ sectionNotes = SectionInOrder(fetches[1].commitTypeIndex)

-----------------------------------------------------------------------------
(* The record claim                                                        *)

\* C24: every subject line git log prints is one record, whatever its
\* length: when the section function returns it has classified as many
\* records as there are subject lines, each record a whole line.
C24_OneRecordPerSubject ==
    pc = "sectionReturned" =>
        /\ Len(records) = Len(gitLog)
        /\ \A j \in DOMAIN records : records[j].commitMessage = gitLog[j] \o <<"\n">>

-----------------------------------------------------------------------------
(* The one type claim                                                      *)

\* the conventional name of the commit type of index typeIndex
NameOf(typeIndex) == config.commitTypes[typeIndex + 1].ConventionalName

\* the name holds neither ':' nor '('
WithoutDelimiter(name) == \A j \in DOMAIN name : name[j] \notin {":", "("}

\* another commit type whose name and that of typeIndex differ and hold
\* neither ':' nor '('
OtherTypes(typeIndex) ==
    {j \in 0..(commitTypesCount - 1) :
        /\ NameOf(j) # NameOf(typeIndex)
        /\ WithoutDelimiter(NameOf(j))
        /\ WithoutDelimiter(NameOf(typeIndex))}

\* C25: with conventional names that differ and hold neither ':' nor '(' a
\* title matches one commit type at most: when checkCommitTypeMatch has
\* returned a match for a commit type it returns NoMatch for every other one.
C25_AtMostOneType ==
    pc = "matched" /\ matchResult # "NoMatch" =>
        \A j \in OtherTypes(commitTypeIndex) :
            checkCommitTypeMatch(commitMessage, j) = "NoMatch"

\* C25 witness: a title has matched a commit type whose name starts with the
\* name of another one, which is at the start of the title as well
C25_Witness ==
    /\ pc = "matched"
    /\ matchResult = "MatchWithSubCategory"
    /\ \E j \in OtherTypes(commitTypeIndex) :
           /\ Len(NameOf(j)) < Len(NameOf(commitTypeIndex))
           /\ SubSeq(commitMessage, 1, Len(NameOf(j))) = NameOf(j)

-----------------------------------------------------------------------------
(* The independence claim                                                  *)

\* the string part stands in the string s, character after character
Occurs(part, s) ==
    \E j \in 0..(Len(s) - Len(part)) : SubSeq(s, j + 1, j + Len(part)) = part

\* C26: in formatPullRequestBody the commit SHA rewrite leaves every link
\* the hash id rewrite has made as it is, for every body and every
\* repoIssuesUrl, the empty one too, also for an issue id of 6 digits or more:
\* the link of every hash id of the body stands in what the commit SHA
\* rewrite returns and in what formatPullRequestBody returns.
C26_HashIdLinksKept ==
    pc = "formatted" =>
        LET ms == HashIdMatchesFrom(pullRequestBody, 0)
        IN  \A j \in DOMAIN ms :
                /\ Occurs(HashIdLink(ms[j].group), applications[1].result)
                /\ Occurs(HashIdLink(ms[j].group), applications[2].result)
                /\ Occurs(HashIdLink(ms[j].group), result)

-----------------------------------------------------------------------------
(* The pull request title claim                                            *)

\* the title of the pull request classifies as the commit type
TitleMatches(info, typeIndex) ==
    /\ ~info.title.is_null
    /\ checkCommitTypeMatch(info.title.value, typeIndex) # "NoMatch"

\* C27: when the source is pull requests every entry of the section of a
\* commit type comes from a pull request whose title classifies as that
\* commit type: no entry is added, and the title is not converted with
\* NoMatch, for a pull request whose title is null or does not match.
C27_EntryTitleMatchesType ==
    \A j \in DOMAIN fetches :
        GaveEntry(fetches[j]) =>
            TitleMatches(fetches[j].response.json, fetches[j].commitTypeIndex)

-----------------------------------------------------------------------------
(* The registry size claim                                                 *)

\* C28: after a load that has returned, commitTypesCount is the number of
\* entries of the array "commitTypes" and lies between 1 and 50, so that
\* every row commitTypes[i] with 0 <= i < commitTypesCount is a row of the
\* array of 50 rows: load has assigned commitTypesCount rows, none outside.
C28_CountWithinArray ==
    pc = "loaded" =>
        /\ config.commitTypesCount = Len(externalConfigData.commitTypes.value.entries)
        /\ config.commitTypesCount >= 1
        /\ config.commitTypesCount <= CommitTypesCapacity
        /\ Len(config.commitTypes) = config.commitTypesCount
        /\ config.outside = <<>>

-----------------------------------------------------------------------------
(* The change note claim                                                   *)

\* the commit types whose name matches the title of the pull request
MatchingTypes ==
    {t \in 0..(commitTypesCount - 1) :
         checkCommitTypeMatch(pullRequestInfo.title.value, t) # "NoMatch"}

\* the first of them in the order of the registry
FirstMatchingType == CHOOSE t \in MatchingTypes : \A u \in MatchingTypes : t <= u

\* generatePullRequestChangeNote has gone through its loop
ChangeNoteBuilt ==
    /\ pc \in {"noteBuilt", "markdownWritten", "returned", "thrown", "exited"}
    /\ fetches # <<>>
    /\ ~fetches[1].thrown
    /\ fetches[1].response.parses
    /\ ~pullRequestInfo.title.is_null

\* the entry of the pull request under the commit type t, in the full mode
ChangeNoteEntry(t) == addPullRequestInfoInNotes(pullRequestInfo, <<>>, "Full", t)

\* C29: the note generatePullRequestChangeNote builds has at most one
\* section: when no commit type matches the title of the pull request the
\* note is empty; otherwise it is a line feed, the section title of the first
\* commit type of the registry that matches, a line feed, and the one entry of
\* the pull request, and this is the text handed to the files.
C29_OneSectionOfFirstMatchingType ==
    ChangeNoteBuilt =>
        /\ markdownReleaseNotes = pullRequestChangeNote
        /\ IF MatchingTypes = {} THEN pullRequestChangeNote = <<>>
           ELSE pullRequestChangeNote =
                    <<"\n">> \o config.commitTypes[FirstMatchingType + 1].MarkdownTitle
                    \o <<"\n">> \o ChangeNoteEntry(FirstMatchingType)

\* a note is built for a title that two commit types match, the first of
\* them not the first of the registry
C29_Witness ==
    /\ ChangeNoteBuilt
    /\ Cardinality(MatchingTypes) >= 2
    /\ FirstMatchingType > 0
    /\ pullRequestChangeNote # <<>>
    /\ files.markdown.text = pullRequestChangeNote
    /\ files.markdown.is_open

-----------------------------------------------------------------------------
(* The resources claim                                                     *)

\* C30: when the run is over every resource it acquired has been released:
\* no pipe of git log is left open, also when the resolution of a pull
\* request has thrown, and no curl handle and no header list is left, both
\* when getPullRequestInfo has returned a response of status 200 and when it
\* has thrown.
C30_EveryResourceReleased ==
    pc = "exited" => resources = NoResources

=============================================================================
